---- MODULE Spec2Model ----
(***************************************************************************)
(* Model of the spreadsheet-backed product dashboard:                      *)
(*   - the Credential Store (st.session_state.gsheets_creds/_client),      *)
(*   - the Tabular Remote Store Adapter (class GoogleSheetsIntegration),   *)
(*   - the part of the presentation layer that calls the adapter           *)
(*     (render_dashboard: authentication, logout, Load Data, edit form,    *)
(*     add form).                                                          *)
(*                                                                         *)
(* Python None is the empty sequence and a present value x is <<x>>, so    *)
(* that optional values of any type can be compared.  The text of a caught *)
(* exception, str(e), is left out of the messages.  The remote worksheet   *)
(* is a list of rows of text cells; row 1 is the header.                   *)
(***************************************************************************)
EXTENDS Integers, Sequences, FiniteSets, TLC

VARIABLES
    gsheets_creds,      \* st.session_state.gsheets_creds
    gsheets_client,     \* st.session_state.gsheets_client
    spreadsheet,        \* st.session_state.spreadsheet
    current_data,       \* st.session_state.current_data
    worksheet_index,    \* st.session_state.worksheet_index
    remote,             \* the worksheets of the remote spreadsheet
    openai_api_key,     \* st.session_state.openai_api_key
    generated_product,  \* st.session_state.generated_product, None while absent
    improved_description,    \* st.session_state.improved_description, None while absent
    improved_product_index,  \* st.session_state.improved_product_index, None while absent
    last,               \* the last operation: arguments, result, remote calls
    steps               \* number of operations the behaviour may still perform

vars == <<gsheets_creds, gsheets_client, spreadsheet, current_data,
          worksheet_index, remote, openai_api_key, generated_product,
          improved_description, improved_product_index, last, steps>>

session == <<spreadsheet, current_data, worksheet_index>>

\* what the AI sidebar of app.py keeps in the session
ai == <<openai_api_key, generated_product, improved_description,
        improved_product_index>>

(***************************************************************************)
(* Bounds.                                                                 *)
(***************************************************************************)
MaxSteps == 4        \* user actions per behaviour
MaxCalls == 1        \* direct adapter calls per behaviour
MaxRows == 3         \* rows of a worksheet, header included

None == << >>
Some(x) == <<x>>

Min(a, b) == IF a < b THEN a ELSE b
Max(a, b) == IF a < b THEN b ELSE a

(***************************************************************************)
(* Python list helpers.                                                    *)
(***************************************************************************)
\* list.index(x) + 1: the 1-based position of the first occurrence
IndexOf(s, x) == CHOOSE i \in 1..Len(s) : s[i] = x /\ \A j \in 1..(i - 1) : s[j] # x

\* does the sequence sub occur in s at position i
OccursAt(s, sub, i) ==
    /\ i + Len(sub) - 1 <= Len(s)
    /\ \A k \in 1..Len(sub) : s[i + k - 1] = sub[k]

\* `sub in s`
Contains(s, sub) == \E i \in 1..Len(s) : OccursAt(s, sub, i)

\* position of the first occurrence of sub in s at or after from, 0 if none
Find(s, sub, from) ==
    IF \E i \in from..Len(s) : OccursAt(s, sub, i)
    THEN CHOOSE i \in from..Len(s) :
            OccursAt(s, sub, i) /\ \A j \in from..(i - 1) : ~OccursAt(s, sub, j)
    ELSE 0

\* s.split(sub)[1]: the text between the first and the second occurrence
SplitSecond(s, sub) ==
    LET p == Find(s, sub, 1)
        start == p + Len(sub)
        q == Find(s, sub, start)
    IN  IF q = 0 THEN SubSeq(s, start, Len(s)) ELSE SubSeq(s, start, q - 1)

\* s.split(sub)[0]: the text before the first occurrence
SplitFirst(s, sub) ==
    LET p == Find(s, sub, 1)
    IN  IF p = 0 THEN s ELSE SubSeq(s, 1, p - 1)

(***************************************************************************)
(* Values.  A cell of the remote sheet holds text.  A Python float is      *)
(* written "f:<n>" and float nan "NaN"; no cell text has these forms.      *)
(***************************************************************************)
NumText == <<"0", "10", "20">>
NumFloat == <<"f:0", "f:10", "f:20">>
Floats == {NumFloat[i] : i \in 1..Len(NumFloat)}

\* a missing value of a DataFrame (None or float nan; pd.isna is true of it)
NaN == "NaN"

\* float(v) succeeds
IsNumber(v) == v \in Floats \/ \E i \in 1..Len(NumText) : NumText[i] = v

\* float(v)
ToFloat(v) == IF v \in Floats THEN v ELSE NumFloat[IndexOf(NumText, v)]

\* pd.to_numeric(v, errors='coerce') of one value
to_numeric(v) == IF v = NaN THEN NaN ELSE IF IsNumber(v) THEN ToFloat(v) ELSE NaN

\* the text the store shows for a value written to a cell
CellText(v) == IF v \in Floats THEN NumText[IndexOf(NumFloat, v)] ELSE v

\* the request would carry float nan, which is no JSON: it is not sent
HasNaN(values) == \E c \in 1..Len(values) : values[c] = NaN

(***************************************************************************)
(* The remote store, as reached through the gspread worksheet object.      *)
(***************************************************************************)
Blank(n) == [i \in 1..n |-> ""]

\* the cells a row of written values becomes
Stored(values) == [c \in 1..Len(values) |-> CellText(values[c])]

\* worksheet.row_values(r)
RowValues(grid, r) == IF r \in 1..Len(grid) THEN grid[r] ELSE << >>

\* worksheet.cell(r, c).value
Cell(grid, r, c) ==
    IF r \in 1..Len(grid) /\ c \in 1..Len(grid[r]) THEN grid[r][c] ELSE ""

\* the number of cells of the widest row
Width(grid) ==
    IF grid = << >> THEN 0
    ELSE LET w == {Len(grid[i]) : i \in 1..Len(grid)}
         IN  CHOOSE n \in w : \A m \in w : m <= n

\* the rows as stored, a row ending where its last filled cell is
GetAllValuesAsStored(grid) == grid

\* worksheet.get_all_values(): every row, each filled up with "" to the width
\* of the widest row
GetAllValues(grid) ==
    [i \in 1..Len(grid) |-> grid[i] \o Blank(Width(grid) - Len(grid[i]))]

\* worksheet.update_row(r, values): replace the cells of row r from the first
\* column on by the values; cells the row has beyond them stay
ReplaceRow(grid, r, values) ==
    [i \in 1..Max(Len(grid), r) |->
        IF i = r
        THEN Stored(values) \o
             (IF i <= Len(grid) /\ Len(grid[i]) > Len(values)
              THEN SubSeq(grid[i], Len(values) + 1, Len(grid[i]))
              ELSE << >>)
        ELSE IF i <= Len(grid) THEN grid[i]
        ELSE Blank(Len(values))]

\* worksheet.append_row(values): new last row
AppendRow(grid, values) == Append(grid, Stored(values))

\* worksheet.delete_row(r): rows after r move up
DeleteRow(grid, r) ==
    IF r \in 1..Len(grid)
    THEN [i \in 1..(Len(grid) - 1) |-> IF i < r THEN grid[i] ELSE grid[i + 1]]
    ELSE grid

Call(api, row, col, values) == [api |-> api, row |-> row, col |-> col, values |-> values]

\* A fault f tells which remote call of an operation fails: 0 none, k the
\* k-th call; one more than the number of calls: the last call fails after the
\* store has carried it out (its reply is lost).
Failed(plan, f) == f \in 1..(Len(plan) + 1)
Carried(plan, f) == f = Len(plan) + 1
\* the calls issued up to and including the failing one
Issued(plan, f) == IF f \in 1..Len(plan) THEN SubSeq(plan, 1, f) ELSE plan

(***************************************************************************)
(* Outcome of a method body: exc is TRUE when an exception is in flight.   *)
(* try: ... except Exception as e: return <failret>, f"<failmsg>: ..."     *)
(***************************************************************************)
Raise(rem, calls) ==
    [exc |-> TRUE, ret |-> FALSE, msg |-> "", remote |-> rem, calls |-> calls]

Return(ret, msg, rem, calls) ==
    [exc |-> FALSE, ret |-> ret, msg |-> msg, remote |-> rem, calls |-> calls]

\* the body without a try block around it
NoTry(body, failret, failmsg) == body

TryExcept(body, failret, failmsg) ==
    IF body.exc
    THEN [body EXCEPT !.exc = FALSE, !.ret = failret, !.msg = failmsg]
    ELSE body

(***************************************************************************)
(* Credentials.  A payload is the text handed to authenticate_with_key.    *)
(***************************************************************************)
Keys == {"key1", "key2"}
Payloads == {"", "not json", "{}"} \cup Keys

\* json.loads(api_key_json) succeeds
JsonLoads(p) == p \in {"{}"} \cup Keys

\* ServiceAccountCredentials.from_json_keyfile_dict(creds_dict, scope) succeeds
KeyfileDict(p) == p \in Keys

\* GoogleSheetsIntegration.is_authenticated
is_authenticated(client) == client # None

\* authenticate_with_key storing the credential before it is authorized
authenticate_with_key_early(creds, client, api_key_json, f) ==
    LET plan == <<Call("authorize", 0, 0, << >>)>>
        out(exc, ret, msg, c, k, calls) ==
            [exc |-> exc, ret |-> ret, msg |-> msg, creds |-> c, client |-> k,
             calls |-> calls]
    IN  IF ~JsonLoads(api_key_json) THEN out(TRUE, FALSE, "", creds, client, << >>)
        ELSE IF ~KeyfileDict(api_key_json) THEN out(TRUE, FALSE, "", creds, client, << >>)
        ELSE IF Failed(plan, f) THEN out(TRUE, FALSE, "", Some(api_key_json), client, plan)
        ELSE out(FALSE, TRUE, "Authentication successful",
                 Some(api_key_json), Some(api_key_json), plan)

\* GoogleSheetsIntegration.authenticate_with_key; f = 1: gspread.authorize is rejected
authenticate_with_key_body(creds, client, api_key_json, f) ==
    LET plan == <<Call("authorize", 0, 0, << >>)>>
        out(exc, ret, msg, c, k, calls) ==
            [exc |-> exc, ret |-> ret, msg |-> msg, creds |-> c, client |-> k,
             calls |-> calls]
    IN  IF ~JsonLoads(api_key_json) THEN out(TRUE, FALSE, "", creds, client, << >>)
        ELSE IF ~KeyfileDict(api_key_json) THEN out(TRUE, FALSE, "", creds, client, << >>)
        ELSE IF Failed(plan, f) THEN out(TRUE, FALSE, "", creds, client, plan)
        ELSE out(FALSE, TRUE, "Authentication successful",
                 Some(api_key_json), Some(api_key_json), plan)

\* authenticate_with_key keeping the credential of a rejected authorization
authenticate_with_key_half(creds, client, api_key_json, f) ==
    TryExcept(authenticate_with_key_early(creds, client, api_key_json, f),
              FALSE, "Authentication failed")

authenticate_with_key(creds, client, api_key_json, f) ==
    TryExcept(authenticate_with_key_body(creds, client, api_key_json, f),
              FALSE, "Authentication failed")

\* GoogleSheetsIntegration.authenticate_with_oauth
authenticate_with_oauth(creds, client) ==
    [exc |-> FALSE, ret |-> FALSE, msg |-> "OAuth authentication not implemented",
     creds |-> creds, client |-> client, calls |-> << >>]

\* the methods class GoogleSheetsIntegration defines
Methods == {"__init__", "authenticate_with_key", "authenticate_with_oauth",
            "is_authenticated", "get_spreadsheet", "get_worksheet_data",
            "update_row", "add_row", "delete_row"}

\* sheets.<name>(...): a name the class does not define raises AttributeError
\* at the call site
CallMethod(name, result, creds, client) ==
    IF name \in Methods THEN result
    ELSE [exc |-> TRUE, ret |-> FALSE, msg |-> "", creds |-> creds,
          client |-> client, calls |-> << >>]

(***************************************************************************)
(* Spreadsheets.  Text is a sequence of one-character strings.             *)
(***************************************************************************)
Marker == <<"s","p","r","e","a","d","s","h","e","e","t","s","/","d","/">>
Slash == <<"/">>
SheetId == <<"X","1">>
Host == <<"h","/">>

\* "https://host/spreadsheets/d/XYZ123/edit?gid=1"
ExampleId == <<"X","Y","Z","1","2","3">>
ExampleUrl == <<"h","t","t","p","s",":","/","/","h","o","s","t","/">> \o Marker
              \o ExampleId \o <<"/","e","d","i","t","?","g","i","d","=","1">>

\* a text in which the marker comes a second time, before any "/"
TwiceUrl == Host \o Marker \o <<"A","B">> \o Marker \o <<"C","D">>

\* identifiers and URLs a caller may pass to get_spreadsheet
Urls == {SheetId,
         Host \o Marker \o SheetId \o <<"/","e">>,
         Host \o Marker \o SheetId,
         <<"X","2">>,
         ExampleUrl,
         TwiceUrl}

\* the URL handed to open_by_key as it is
spreadsheet_id_whole(spreadsheet_url) == spreadsheet_url

\* lines 57-61 of get_spreadsheet
spreadsheet_id(spreadsheet_url) ==
    IF Contains(spreadsheet_url, Marker)
    THEN SplitFirst(SplitSecond(spreadsheet_url, Marker), Slash)
    ELSE spreadsheet_url

\* get_spreadsheet without the is_authenticated check: None.open_by_key raises
get_spreadsheet_unchecked(client, spreadsheet_url, rem, f) ==
    LET id == spreadsheet_id(spreadsheet_url)
        plan == <<Call("open_by_key", 0, 0, id)>>
    IN  IF client = None THEN Raise(rem, << >>)
        ELSE IF Failed(plan, f) \/ id # SheetId THEN Raise(rem, plan)
        ELSE Return(Some([id |-> id, client |-> client[1]]), "Success", rem, plan)

\* GoogleSheetsIntegration.get_spreadsheet; f = 1: open_by_key fails
get_spreadsheet_body(client, spreadsheet_url, rem, f) ==
    IF ~is_authenticated(client) THEN Return(None, "Not authenticated", rem, << >>)
    ELSE LET id == spreadsheet_id(spreadsheet_url)
             plan == <<Call("open_by_key", 0, 0, id)>>
         IN  IF Failed(plan, f) \/ id # SheetId THEN Raise(rem, plan)
             ELSE Return(Some([id |-> id, client |-> client[1]]), "Success", rem, plan)

get_spreadsheet(client, spreadsheet_url, rem, f) ==
    TryExcept(get_spreadsheet_body(client, spreadsheet_url, rem, f),
              None, "Error accessing spreadsheet")

\* spreadsheet.get_worksheet(worksheet_index) yields a worksheet
HasWorksheet(rem, sp, wi) == sp # None /\ wi + 1 \in 1..Len(rem)

GetWorksheet == Call("get_worksheet", 0, 0, << >>)

\* pd.DataFrame(rows, columns=headers): an ordered list of records under the
\* header's column names; raises unless the widest row is as wide as the
\* header, and fills a narrower row up with missing values
DataFrameOk(headers, rows) ==
    \/ rows = << >>
    \/ /\ \A i \in 1..Len(rows) : Len(rows[i]) <= Len(headers)
       /\ \E i \in 1..Len(rows) : Len(rows[i]) = Len(headers)

DataFrame(headers, rows) ==
    [columns |-> headers,
     rows |-> [i \in 1..Len(rows) |->
                  rows[i] \o [k \in 1..(Len(headers) - Len(rows[i])) |-> NaN]]]

\* GoogleSheetsIntegration.get_worksheet_data
ReadPlan == <<GetWorksheet, Call("get_all_values", 0, 0, << >>)>>

\* data[1:] with the header mistaken for a record
DataRowsWithHeader(data) == data

\* rows = data[1:]
DataRows(data) == SubSeq(data, 2, Len(data))

\* get_worksheet_data without the test for an empty worksheet: data[0] raises
get_worksheet_data_unchecked(rem, sp, wi, f) ==
    LET plan == ReadPlan
    IN  IF sp = None THEN Raise(rem, << >>)
        ELSE IF ~HasWorksheet(rem, sp, wi) THEN Raise(rem, <<GetWorksheet>>)
        ELSE IF Failed(plan, f) THEN Raise(rem, Issued(plan, f))
        ELSE LET data == GetAllValues(rem[wi + 1])
             IN  IF data = << >> THEN Raise(rem, plan)
                 ELSE LET headers == data[1]
                          rows == DataRows(data)
                      IN  IF ~DataFrameOk(headers, rows) THEN Raise(rem, plan)
                          ELSE Return(Some(DataFrame(headers, rows)), "Success", rem, plan)

\* lines 72-86 of get_worksheet_data
get_worksheet_data_body(rem, sp, wi, f) ==
    LET plan == ReadPlan
    IN  IF sp = None THEN Raise(rem, << >>)
        ELSE IF ~HasWorksheet(rem, sp, wi) THEN Raise(rem, <<GetWorksheet>>)
        ELSE IF Failed(plan, f) THEN Raise(rem, Issued(plan, f))
        ELSE LET data == GetAllValues(rem[wi + 1])
             IN  IF data = << >> THEN Return(None, "Worksheet is empty", rem, plan)
                 ELSE LET headers == data[1]
                          rows == DataRows(data)
                      IN  IF ~DataFrameOk(headers, rows) THEN Raise(rem, plan)
                          ELSE Return(Some(DataFrame(headers, rows)), "Success", rem, plan)

get_worksheet_data(rem, sp, wi, f) ==
    TryExcept(get_worksheet_data_body(rem, sp, wi, f),
              None, "Error getting worksheet data")

\* the positions of the header fields the record does not supply
Missing(headers, data_dict) ==
    SelectSeq([i \in 1..Len(headers) |-> i],
              LAMBDA i : headers[i] \notin DOMAIN data_dict)

\* update_row filling the fields not supplied with "" as add_row does
update_row_data_blank(grid, headers, row_index, data_dict) ==
    [i \in 1..Len(headers) |->
        IF headers[i] \in DOMAIN data_dict THEN data_dict[headers[i]] ELSE ""]

\* lines 100-107 of update_row
update_row_data(grid, headers, row_index, data_dict) ==
    [i \in 1..Len(headers) |->
        IF headers[i] \in DOMAIN data_dict
        THEN data_dict[headers[i]]
        ELSE Cell(grid, row_index + 1, IndexOf(headers, headers[i]))]

\* update_row replacing the row above the one it read
update_row_target_above(row_index) == row_index

\* the remote row update_row replaces (line 110)
update_row_target(row_index) == row_index + 1

\* update_row reading the missing cells one row further down than it writes
update_row_body_read_below(rem, sp, wi, row_index, data_dict, f) ==
    IF sp = None THEN Raise(rem, << >>)
    ELSE IF ~HasWorksheet(rem, sp, wi) THEN Raise(rem, <<GetWorksheet>>)
    ELSE LET grid == rem[wi + 1]
             headers == RowValues(grid, 1)
             missing == Missing(headers, data_dict)
             row_data == update_row_data(grid, headers, row_index + 1, data_dict)
             plan == <<GetWorksheet, Call("row_values", 1, 0, << >>)>>
                     \o [k \in 1..Len(missing) |->
                            Call("cell", row_index + 2,
                                 IndexOf(headers, headers[missing[k]]), << >>)]
                     \o <<Call("update_row", update_row_target(row_index), 0, row_data)>>
             written == [rem EXCEPT ![wi + 1] =
                            ReplaceRow(grid, update_row_target(row_index), row_data)]
         IN  IF Failed(plan, f)
             THEN Raise(IF Carried(plan, f) /\ ~HasNaN(row_data) THEN written ELSE rem,
                        Issued(plan, f))
             ELSE IF HasNaN(row_data) THEN Raise(rem, plan)
             ELSE Return(TRUE, "Row updated successfully", written, plan)

\* GoogleSheetsIntegration.update_row
update_row_body(rem, sp, wi, row_index, data_dict, f) ==
    IF sp = None THEN Raise(rem, << >>)
    ELSE IF ~HasWorksheet(rem, sp, wi) THEN Raise(rem, <<GetWorksheet>>)
    ELSE LET grid == rem[wi + 1]
             headers == RowValues(grid, 1)
             missing == Missing(headers, data_dict)
             row_data == update_row_data(grid, headers, row_index, data_dict)
             plan == <<GetWorksheet, Call("row_values", 1, 0, << >>)>>
                     \o [k \in 1..Len(missing) |->
                            Call("cell", row_index + 1,
                                 IndexOf(headers, headers[missing[k]]), << >>)]
                     \o <<Call("update_row", update_row_target(row_index), 0, row_data)>>
             written == [rem EXCEPT ![wi + 1] =
                            ReplaceRow(grid, update_row_target(row_index), row_data)]
         IN  IF Failed(plan, f)
             THEN Raise(IF Carried(plan, f) /\ ~HasNaN(row_data) THEN written ELSE rem,
                        Issued(plan, f))
             ELSE IF HasNaN(row_data) THEN Raise(rem, plan)
             ELSE Return(TRUE, "Row updated successfully", written, plan)

update_row(rem, sp, wi, row_index, data_dict, f) ==
    TryExcept(update_row_body(rem, sp, wi, row_index, data_dict, f),
              FALSE, "Error updating row")

\* add_row without the else branch: fields not supplied get no cell
add_row_data_skip(headers, data_dict) ==
    LET present == SelectSeq([i \in 1..Len(headers) |-> i],
                             LAMBDA i : headers[i] \in DOMAIN data_dict)
    IN  [k \in 1..Len(present) |-> data_dict[headers[present[k]]]]

\* lines 126-131 of add_row
add_row_data(headers, data_dict) ==
    [i \in 1..Len(headers) |->
        IF headers[i] \in DOMAIN data_dict THEN data_dict[headers[i]] ELSE ""]

\* add_row looking up the header of each supplied field: headers.index(key)
\* raises for a field the header does not have
add_row_strict(rem, sp, wi, data_dict, f) ==
    IF sp = None THEN Raise(rem, << >>)
    ELSE IF ~HasWorksheet(rem, sp, wi) THEN Raise(rem, <<GetWorksheet>>)
    ELSE LET grid == rem[wi + 1]
             headers == RowValues(grid, 1)
             row_data == add_row_data(headers, data_dict)
             plan == <<GetWorksheet, Call("row_values", 1, 0, << >>),
                       Call("append_row", 0, 0, row_data)>>
             written == [rem EXCEPT ![wi + 1] = AppendRow(grid, row_data)]
         IN  IF Failed(plan, f)
             THEN Raise(IF Carried(plan, f) /\ ~HasNaN(row_data) THEN written ELSE rem,
                        Issued(plan, f))
             ELSE IF HasNaN(row_data) THEN Raise(rem, plan)
             ELSE IF \E k \in DOMAIN data_dict : \A i \in 1..Len(headers) : headers[i] # k
             THEN Raise(rem, SubSeq(plan, 1, 2))
             ELSE Return(TRUE, "Row added successfully", written, plan)

\* GoogleSheetsIntegration.add_row
add_row_body(rem, sp, wi, data_dict, f) ==
    IF sp = None THEN Raise(rem, << >>)
    ELSE IF ~HasWorksheet(rem, sp, wi) THEN Raise(rem, <<GetWorksheet>>)
    ELSE LET grid == rem[wi + 1]
             headers == RowValues(grid, 1)
             row_data == add_row_data(headers, data_dict)
             plan == <<GetWorksheet, Call("row_values", 1, 0, << >>),
                       Call("append_row", 0, 0, row_data)>>
             written == [rem EXCEPT ![wi + 1] = AppendRow(grid, row_data)]
         IN  IF Failed(plan, f)
             THEN Raise(IF Carried(plan, f) /\ ~HasNaN(row_data) THEN written ELSE rem,
                        Issued(plan, f))
             ELSE IF HasNaN(row_data) THEN Raise(rem, plan)
             ELSE Return(TRUE, "Row added successfully", written, plan)

add_row(rem, sp, wi, data_dict, f) ==
    TryExcept(add_row_body(rem, sp, wi, data_dict, f),
              FALSE, "Error adding row")

\* delete_row adding one more for the header
delete_row_target_plus(row_index) == row_index + 2

\* the remote row delete_row deletes (line 147)
delete_row_target(row_index) == row_index + 1

\* GoogleSheetsIntegration.delete_row
delete_row_body(rem, sp, wi, row_index, f) ==
    IF sp = None THEN Raise(rem, << >>)
    ELSE IF ~HasWorksheet(rem, sp, wi) THEN Raise(rem, <<GetWorksheet>>)
    ELSE LET grid == rem[wi + 1]
             plan == <<GetWorksheet,
                       Call("delete_row", delete_row_target(row_index), 0, << >>)>>
             written == [rem EXCEPT ![wi + 1] =
                            DeleteRow(grid, delete_row_target(row_index))]
         IN  IF Failed(plan, f)
             THEN Raise(IF Carried(plan, f) THEN written ELSE rem, Issued(plan, f))
             ELSE Return(TRUE, "Row deleted successfully", written, plan)

\* delete_row deleting the row before it reaches for the worksheet
delete_row_first(rem, sp, wi, row_index, f) ==
    IF HasWorksheet(rem, sp, wi)
    THEN TryExcept(delete_row_body([rem EXCEPT ![wi + 1] =
                                       DeleteRow(@, delete_row_target(row_index))],
                                   sp, wi, row_index, f),
                   FALSE, "Error deleting row")
    ELSE TryExcept(delete_row_body(rem, sp, wi, row_index, f),
                   FALSE, "Error deleting row")

delete_row(rem, sp, wi, row_index, f) ==
    TryExcept(delete_row_body(rem, sp, wi, row_index, f),
              FALSE, "Error deleting row")

(***************************************************************************)
(* State.                                                                  *)
(***************************************************************************)
\* the faults of an operation that issues at most n remote calls
Faults(n) == 0..(n + 1)

\* the remote calls of a read, of an insert or delete, and of an update of a
\* worksheet (one cell read for each header field at most)
ReadCalls == Len(ReadPlan)
WriteCalls == ReadCalls + 1
UpdateCalls(grid) == WriteCalls + Len(RowValues(grid, 1))

\* a record: the fields of S with values as given, others absent
Dict(name, status, extra) ==
    [x \in {y \in {"Name", "Status", "Extra"} :
               \/ y = "Name" /\ name # None
               \/ y = "Status" /\ status # None
               \/ y = "Extra" /\ extra # None} |->
        IF x = "Name" THEN name[1] ELSE IF x = "Status" THEN status[1] ELSE extra[1]]

\* the records a caller may hand to insert/update
Dicts == {Dict(n, s, e) : n \in {None, Some("w")},
                          s \in {None, Some(""), Some("w")},
                          e \in {None, Some("w")}}

H == <<"Name", "Status">>

\* worksheets the remote spreadsheet may hold at the start
InitGrids == { << >>,
               <<H>>,
               <<H, <<"a", "">>>>,
               <<H, <<"a", "b">>, <<"b", "a">>>>,
               <<H, <<"a">>, <<"b", "a">>>>,
               <<H, <<"a">>>>,
               <<<<"Name", "Name">>, <<"a", "b">>>> }

NoOp == [op |-> "init", sp |-> None, wi |-> 0, row_index |-> 0, data_dict |-> << >>,
         url |-> << >>, payload |-> "", f |-> 0, authed |-> FALSE,
         reply |-> None, selected |-> << >>, passes |-> << >>,
         oks |-> << >>, names |-> << >>, improved_for |-> None,
         pre_remote |-> << >>, pre_creds |-> None, pre_client |-> None,
         pre_session |-> <<None, None, 0>>, pre_ai |-> <<"", None, None, None>>,
         ret |-> FALSE, msg |-> "", calls |-> << >>, raised |-> FALSE]

\* the record of an operation and its result r
Done(base, r) ==
    [base EXCEPT !.authed = is_authenticated(gsheets_client),
                 !.pre_remote = remote,
                 !.pre_creds = gsheets_creds,
                 !.pre_client = gsheets_client,
                 !.pre_session = session,
                 !.pre_ai = ai,
                 !.improved_for = last.improved_for,
                 !.ret = r.ret, !.msg = r.msg, !.calls = r.calls, !.raised = r.exc]

Handle(k) == Some([id |-> SheetId, client |-> k])

Fits(rem) == \A i \in 1..Len(rem) : Len(rem[i]) <= MaxRows

(***************************************************************************)
(* The adapter, called directly with any arguments.                        *)
(***************************************************************************)
InitAdapter ==
    /\ remote \in {<<g>> : g \in InitGrids}
    /\ \/ gsheets_creds = None /\ gsheets_client = None /\ spreadsheet = None
       \/ gsheets_creds = Some("key1") /\ gsheets_client = Some("key1")
          /\ spreadsheet \in {None, Handle("key1")}
    /\ current_data = None
    /\ worksheet_index = 0
    /\ openai_api_key = ""
    /\ generated_product = None
    /\ improved_description = None
    /\ improved_product_index = None
    /\ last = NoOp
    /\ steps = MaxCalls

\* gspread.authorize is reached only with a well-formed key
AuthFaults(p) == IF p \in Keys THEN 0..1 ELSE {0}

Step == steps > 0 /\ steps' = steps - 1

\* the (handle, worksheet index) pairs a caller may pass: the handle it holds
\* with an index that exists, or one of the two that cannot work
Targets == {<<spreadsheet, 0>>, <<spreadsheet, Len(remote)>>, <<None, 0>>}
Usable(t) == HasWorksheet(remote, t[1], t[2])
\* arguments that matter only when the worksheet can be reached
Only(t, S, dflt) == IF Usable(t) THEN S ELSE {dflt}

AdAuthenticateWithKey ==
    \E p \in Payloads : \E f \in AuthFaults(p) :
        LET r == authenticate_with_key(gsheets_creds, gsheets_client, p, f)
        IN  /\ Step
            /\ UNCHANGED ai
            /\ gsheets_creds' = r.creds
            /\ gsheets_client' = r.client
            /\ last' = Done([NoOp EXCEPT !.op = "authenticate_with_key",
                                         !.payload = p, !.f = f], r)
            /\ UNCHANGED <<spreadsheet, current_data, worksheet_index, remote>>

AdAuthenticateWithOauth ==
    LET r == authenticate_with_oauth(gsheets_creds, gsheets_client)
    IN  /\ Step
        /\ UNCHANGED ai
        /\ gsheets_creds' = r.creds
        /\ gsheets_client' = r.client
        /\ last' = Done([NoOp EXCEPT !.op = "authenticate_with_oauth"], r)
        /\ UNCHANGED <<spreadsheet, current_data, worksheet_index, remote>>

\* the caller keeps the handle it is given
AdGetSpreadsheet ==
    \E url \in Urls, f \in 0..1 :
        LET r == get_spreadsheet(gsheets_client, url, remote, f)
        IN  /\ Step
            /\ UNCHANGED ai
            /\ spreadsheet' = IF r.ret # None THEN r.ret ELSE spreadsheet
            /\ last' = Done([NoOp EXCEPT !.op = "get_spreadsheet", !.url = url,
                                         !.f = f], r)
            /\ UNCHANGED <<gsheets_creds, gsheets_client, current_data,
                           worksheet_index, remote>>

AdGetWorksheetData ==
    \E t \in Targets : \E f \in Only(t, Faults(ReadCalls), 0) :
        LET r == get_worksheet_data(remote, t[1], t[2], f)
        IN  /\ Step
            /\ UNCHANGED ai
            /\ last' = Done([NoOp EXCEPT !.op = "get_worksheet_data", !.sp = t[1],
                                         !.wi = t[2], !.f = f], r)
            /\ UNCHANGED <<gsheets_creds, gsheets_client, spreadsheet, current_data,
                           worksheet_index, remote>>

AdUpdateRow ==
    \E t \in Targets :
    \E row_index \in Only(t, 0..(MaxRows - 1), 0), d \in Only(t, Dicts, << >>),
       f \in Only(t, Faults(UpdateCalls(remote[1])), 0) :
        LET r == update_row(remote, t[1], t[2], row_index, d, f)
        IN  /\ Step
            /\ UNCHANGED ai
            /\ Fits(r.remote)
            /\ remote' = r.remote
            /\ last' = Done([NoOp EXCEPT !.op = "update_row", !.sp = t[1], !.wi = t[2],
                                         !.row_index = row_index, !.data_dict = d,
                                         !.f = f], r)
            /\ UNCHANGED <<gsheets_creds, gsheets_client, spreadsheet, current_data,
                           worksheet_index>>

AdAddRow ==
    \E t \in Targets :
    \E d \in Only(t, Dicts, << >>), f \in Only(t, Faults(WriteCalls), 0) :
        LET r == add_row(remote, t[1], t[2], d, f)
        IN  /\ Step
            /\ UNCHANGED ai
            /\ Fits(r.remote)
            /\ remote' = r.remote
            /\ last' = Done([NoOp EXCEPT !.op = "add_row", !.sp = t[1], !.wi = t[2],
                                         !.data_dict = d, !.f = f], r)
            /\ UNCHANGED <<gsheets_creds, gsheets_client, spreadsheet, current_data,
                           worksheet_index>>

AdDeleteRow ==
    \E t \in Targets :
    \E row_index \in Only(t, 0..(MaxRows - 1), 0), f \in Only(t, Faults(ReadCalls), 0) :
        LET r == delete_row(remote, t[1], t[2], row_index, f)
        IN  /\ Step
            /\ UNCHANGED ai
            /\ remote' = r.remote
            /\ last' = Done([NoOp EXCEPT !.op = "delete_row", !.sp = t[1], !.wi = t[2],
                                         !.row_index = row_index, !.f = f], r)
            /\ UNCHANGED <<gsheets_creds, gsheets_client, spreadsheet, current_data,
                           worksheet_index>>

NextAdapter ==
    \/ AdAuthenticateWithKey
    \/ AdAuthenticateWithOauth
    \/ AdGetSpreadsheet
    \/ AdGetWorksheetData
    \/ AdUpdateRow
    \/ AdAddRow
    \/ AdDeleteRow

SpecAdapter == InitAdapter /\ [][NextAdapter]_vars

(***************************************************************************)
(* The content generation adapter (class OpenAIIntegration).  The content  *)
(* of a reply is None or a sequence of tokens; a description is a text.    *)
(***************************************************************************)
\* os.environ.get('OPENAI_API_KEY', '')
EnvKeys == {"", "sk-env"}

\* set_api_key keeping the stored key when handed an empty one
set_api_key_nonempty(key, api_key) ==
    [exc |-> FALSE, ret |-> TRUE, msg |-> "API key set successfully",
     key |-> IF api_key = "" THEN key ELSE api_key, calls |-> << >>]

\* OpenAIIntegration.set_api_key
set_api_key(key, api_key) ==
    [exc |-> FALSE, ret |-> TRUE, msg |-> "API key set successfully",
     key |-> api_key, calls |-> << >>]

\* OpenAIIntegration.is_configured
is_configured(key) == key # ""

\* the product a well-formed reply describes
Product == [x \in {"Name", "Description", "Status", "Regular price", "URL Slug"} |->
               IF x = "Name" THEN "g"
               ELSE IF x = "Description" THEN "gd"
               ELSE IF x = "Status" THEN "Draft"
               ELSE IF x = "Regular price" THEN "f:20"
               ELSE "g-slug"]

\* the code fence markers: three backquotes followed by json, three backquotes
Fences == {"[fence]json", "[fence]"}

\* line 76: both markers replaced by ""
StripFences(content) == SelectSeq(content, LAMBDA t : t \notin Fences)

\* json.loads(result) succeeds: the text is one JSON value
json_ok(result) == Len(result) = 1 /\ result[1] \in {"{product}", "{}", "null"}

\* json.loads(result): a dict, or None for null
json_loads(result) ==
    IF result[1] = "{product}" THEN Some(Product)
    ELSE IF result[1] = "{}" THEN Some(<< >>)
    ELSE None

\* the contents a reply to generate_product may have
ProductReplies ==
    {None, Some(<< >>), Some(<<"{product}">>), Some(<<"[fence]json", "{product}", "[fence]">>),
     Some(<<"Here", "{product}">>), Some(<<"{}">>), Some(<<"null">>)}

\* the contents a reply to improve_product_description may have
TextReplies == {None, Some(""), Some(" "), Some("better"), Some(" better ")}

\* str.strip()
strip(text) == IF text = " " THEN "" ELSE IF text = " better " THEN "better" ELSE text

Create == Call("chat.completions.create", 0, 0, << >>)

\* lines 36-80 of generate_product; f = 1: the service call fails
generate_product_body(reply, f) ==
    IF Failed(<<Create>>, f) THEN Raise(<< >>, <<Create>>)
    ELSE IF reply = None THEN Raise(<< >>, <<Create>>)
    ELSE LET result == StripFences(reply[1])
         IN  IF ~json_ok(result) THEN Raise(<< >>, <<Create>>)
             ELSE Return(json_loads(result), "Product generated successfully",
                         << >>, <<Create>>)

\* generate_product without its try block
generate_product_notry(key, reply, f) ==
    IF ~is_configured(key)
    THEN Return(None, "OpenAI API key not configured", << >>, << >>)
    ELSE generate_product_body(reply, f)

\* OpenAIIntegration.generate_product
generate_product(key, reply, f) ==
    IF ~is_configured(key)
    THEN Return(None, "OpenAI API key not configured", << >>, << >>)
    ELSE TryExcept(generate_product_body(reply, f), None, "Error generating product")

\* lines 89-122 of improve_product_description
improve_product_description_body(reply, f) ==
    IF Failed(<<Create>>, f) THEN Raise(<< >>, <<Create>>)
    ELSE IF reply = None THEN Raise(<< >>, <<Create>>)
    ELSE Return(Some(strip(reply[1])), "Description improved successfully",
                << >>, <<Create>>)

\* OpenAIIntegration.improve_product_description
improve_product_description(key, reply, f) ==
    IF ~is_configured(key)
    THEN Return(None, "OpenAI API key not configured", << >>, << >>)
    ELSE TryExcept(improve_product_description_body(reply, f),
                   None, "Error improving description")

(***************************************************************************)
(* The content generation adapter, called directly with any arguments.     *)
(***************************************************************************)
MaxAiCalls == 2      \* direct calls of the content generation adapter

\* OpenAIIntegration.__init__ in a fresh session: the key is the environment's
InitOpenAI ==
    /\ gsheets_creds = None
    /\ gsheets_client = None
    /\ spreadsheet = None
    /\ current_data = None
    /\ worksheet_index = 0
    /\ remote = << >>
    /\ openai_api_key \in EnvKeys
    /\ generated_product = None
    /\ improved_description = None
    /\ improved_product_index = None
    /\ last = [NoOp EXCEPT !.op = "__init__", !.payload = openai_api_key]
    /\ steps = MaxAiCalls

\* the service is called only when a key is configured
CreateFaults == IF is_configured(openai_api_key) THEN 0..1 ELSE {0}

OaSetApiKey ==
    \E k \in {"", "sk-1", "sk-2"} :
        LET r == set_api_key(openai_api_key, k)
        IN  /\ Step
            /\ openai_api_key' = r.key
            /\ last' = Done([NoOp EXCEPT !.op = "set_api_key", !.payload = k], r)
            /\ UNCHANGED <<gsheets_creds, gsheets_client, session, remote,
                           generated_product, improved_description,
                           improved_product_index>>

OaGenerateProduct ==
    \E reply \in ProductReplies, f \in CreateFaults :
        LET r == generate_product(openai_api_key, reply, f)
        IN  /\ Step
            /\ last' = Done([NoOp EXCEPT !.op = "generate_product", !.reply = reply,
                                         !.f = f], r)
            /\ UNCHANGED <<gsheets_creds, gsheets_client, session, remote, ai>>

OaImproveProductDescription ==
    \E reply \in TextReplies, f \in CreateFaults :
        LET r == improve_product_description(openai_api_key, reply, f)
        IN  /\ Step
            /\ last' = Done([NoOp EXCEPT !.op = "improve_product_description",
                                         !.reply = reply, !.f = f], r)
            /\ UNCHANGED <<gsheets_creds, gsheets_client, session, remote, ai>>

NextOpenAI ==
    \/ OaSetApiKey
    \/ OaGenerateProduct
    \/ OaImproveProductDescription

SpecOpenAI == InitOpenAI /\ [][NextOpenAI]_vars

(***************************************************************************)
(* Properties of the adapter.                                              *)
(***************************************************************************)
\* the Table a fault-free read_worksheet returns for worksheet wi of rem
ReadBack(rem, wi) == get_worksheet_data(rem, Handle("key1"), wi, 0).ret

UniqueHeaders(grid) ==
    /\ grid # << >>
    /\ \A i, j \in 1..Len(grid[1]) : grid[1][i] = grid[1][j] => i = j

\* s without its k-th element
Without(s, k) == [i \in 1..(Len(s) - 1) |-> IF i < k THEN s[i] ELSE s[i + 1]]

\* a row without its trailing empty cells: the store returns none of them,
\* and the read fills every row up to the widest one with ""
RECURSIVE Trimmed(_)
Trimmed(row) ==
    IF row # << >> /\ row[Len(row)] = "" THEN Trimmed(SubSeq(row, 1, Len(row) - 1))
    ELSE row

TrimmedRows(rows) == [i \in 1..Len(rows) |-> Trimmed(rows[i])]

\* the worksheet the last operation addressed, before and after it
PreGrid == last.pre_remote[last.wi + 1]
PostGrid == remote[last.wi + 1]

Succeeded(op) == last.op = op /\ last.ret = TRUE

\* a successful update of the record at data offset o: in a re-read, that record
\* has the supplied fields set and the others kept; nothing else differs
UpdatedAt(o) ==
    LET before == ReadBack(last.pre_remote, last.wi)
        after == ReadBack(remote, last.wi)
    IN  /\ before # None /\ after # None
        /\ after[1].columns = before[1].columns
        /\ Len(after[1].rows) = Len(before[1].rows)
        /\ \A i \in 1..Len(after[1].rows) :
              i # o + 1 => after[1].rows[i] = before[1].rows[i]
        /\ \A c \in 1..Len(after[1].columns) :
              after[1].rows[o + 1][c] =
                 IF after[1].columns[c] \in DOMAIN last.data_dict
                 THEN last.data_dict[after[1].columns[c]]
                 ELSE before[1].rows[o + 1][c]

\* C1 as stated: update_record(offset, {f: v}), offset counted among the data
\* rows, sets f to v in the record at that offset and changes nothing else.
C1_UpdateAtDataOffset ==
    (/\ Succeeded("update_row")
     /\ UniqueHeaders(PreGrid)
     /\ last.row_index < Len(PreGrid) - 1)
    => UpdatedAt(last.row_index)

\* C1 amended: the row argument of update_row counts the rows of the grid from
\* 0 with the header as row 0, so the record at data offset o is updated by
\* update_row(o + 1, {f: v}); on a sheet with unique headers a re-read then
\* shows that record with f equal to v and its other fields unchanged, and no
\* other record and not the header changed.
C1_UpdateAtGridRow ==
    (/\ Succeeded("update_row")
     /\ UniqueHeaders(PreGrid)
     /\ last.row_index >= 1
     /\ last.row_index <= Len(PreGrid) - 1)
    => UpdatedAt(last.row_index - 1)

C1_Witness ==
    /\ Succeeded("update_row")
    /\ UniqueHeaders(PreGrid)
    /\ last.row_index = 1
    /\ Len(PreGrid) = 3
    /\ DOMAIN last.data_dict = {"Status"}
    /\ PreGrid[2] = <<"a", "b">>
    /\ PostGrid[2] = <<"a", "w">>

\* a successful delete of the record at data offset o: a re-read has one record
\* less, the later records one place nearer the start, the header unchanged
\* (rows compared without their trailing empty cells: the read fills rows up
\* to the widest row left)
DeletedAt(o) ==
    LET before == ReadBack(last.pre_remote, last.wi)
        after == ReadBack(remote, last.wi)
    IN  /\ before # None /\ after # None
        /\ Trimmed(after[1].columns) = Trimmed(before[1].columns)
        /\ Len(after[1].rows) = Len(before[1].rows) - 1
        /\ TrimmedRows(after[1].rows) = TrimmedRows(Without(before[1].rows, o + 1))
        /\ last.calls[Len(last.calls)].api = "delete_row"
        /\ last.calls[Len(last.calls)].row = o + 2

\* C2 as stated: delete_record(offset), offset counted among the data rows and
\* smaller than the record count, removes exactly the record at that offset.
C2_DeleteAtDataOffset ==
    (/\ Succeeded("delete_row")
     /\ PreGrid # << >>
     /\ last.row_index < Len(PreGrid) - 1)
    => DeletedAt(last.row_index)

\* C2 amended: the row argument of delete_row counts the rows of the grid from
\* 0 with the header as row 0; delete_row(o + 1) for a data offset o smaller
\* than the record count deletes remote row o + 2: a re-read has exactly one
\* record less, the record previously at o is gone, the records after it are
\* one position nearer the start in unchanged order, the header is unchanged.
C2_DeleteAtGridRow ==
    (/\ Succeeded("delete_row")
     /\ PreGrid # << >>
     /\ last.row_index >= 1
     /\ last.row_index <= Len(PreGrid) - 1)
    => DeletedAt(last.row_index - 1)

C2_Witness ==
    /\ Succeeded("delete_row")
    /\ last.row_index = 1
    /\ PreGrid = <<H, <<"a", "b">>, <<"b", "a">>>>
    /\ PostGrid = <<H, <<"b", "a">>>>

\* C3: insert_record followed by read_worksheet, on a sheet with a header row:
\* exactly one more record, the new record is the last one, it has the supplied
\* value for every header field supplied and "" for every header field omitted,
\* and the earlier records are unchanged.
C3_InsertThenRead ==
    (Succeeded("add_row") /\ PreGrid # << >>)
    => LET before == ReadBack(last.pre_remote, last.wi)
           after == ReadBack(remote, last.wi)
           n == Len(after[1].rows)
       IN  /\ before # None /\ after # None
           /\ after[1].columns = before[1].columns
           /\ n = Len(before[1].rows) + 1
           /\ SubSeq(after[1].rows, 1, n - 1) = before[1].rows
           /\ Len(after[1].rows[n]) = Len(after[1].columns)
           /\ \A c \in 1..Len(after[1].columns) :
                 after[1].rows[n][c] =
                    IF after[1].columns[c] \in DOMAIN last.data_dict
                    THEN last.data_dict[after[1].columns[c]]
                    ELSE ""

C3_Witness ==
    /\ Succeeded("add_row")
    /\ DOMAIN last.data_dict = {"Name"}
    /\ PreGrid = <<H, <<"a", "">>>>
    /\ PostGrid = <<H, <<"a", "">>, <<"w", "">>>>

\* C4: on a worksheet with at least a header row, a read_worksheet no remote
\* call of which fails succeeds with a Table that has one record per row after
\* the header (none for a header-only sheet), in sheet order, each record
\* having exactly the header's fields (the header row, filled with "" up to
\* the widest row as every row is).
C4_ReadShape ==
    (/\ last.op = "get_worksheet_data"
     /\ HasWorksheet(last.pre_remote, last.sp, last.wi)
     /\ last.f = 0
     /\ PreGrid # << >>)
    => /\ last.ret # None
       /\ last.msg = "Success"
       /\ SubSeq(last.ret[1].columns, 1, Len(PreGrid[1])) = PreGrid[1]
       /\ Trimmed(last.ret[1].columns) = Trimmed(PreGrid[1])
       /\ Len(last.ret[1].rows) = Len(PreGrid) - 1
       /\ \A i \in 1..Len(last.ret[1].rows) :
             /\ SubSeq(last.ret[1].rows[i], 1, Len(PreGrid[i + 1])) = PreGrid[i + 1]
             /\ Len(last.ret[1].rows[i]) = Len(last.ret[1].columns)

C4_Witness ==
    /\ last.op = "get_worksheet_data"
    /\ last.f = 0
    /\ last.ret # None
    /\ Len(last.ret[1].rows) = 2
    /\ last.ret[1].rows[2] = <<"b", "a">>

AuthOps == {"authenticate_with_key", "authenticate_with_oauth"}
HandleOps == {"get_spreadsheet", "get_worksheet_data"}
WriteOps == {"update_row", "add_row", "delete_row"}
AdapterOps == AuthOps \cup HandleOps \cup WriteOps

\* a remote call of the last operation failed
FaultHit ==
    \/ last.f >= 1 /\ Len(last.calls) = last.f
    \/ last.f >= 2 /\ Len(last.calls) = last.f - 1

\* C5: no adapter operation lets a fault out: each returns a pair, and when a
\* remote call fails at any step the pair is (false-or-none, message).
C5_AdapterNeverRaises ==
    (last.op \in AdapterOps)
    => /\ ~last.raised
       /\ FaultHit => /\ last.msg # ""
                      /\ last.op \in HandleOps => last.ret = None
                      /\ last.op \notin HandleOps => last.ret = FALSE

C5_Witness ==
    /\ last.op = "update_row"
    /\ last.f = 3
    /\ Len(last.calls) = 3
    /\ last.calls[3].api = "cell"
    /\ last.ret = FALSE
    /\ last.msg = "Error updating row"

\* C8: open_spreadsheet with no active client returns (none, "Not authenticated")
\* and issues no remote call.
C8_OpenNotAuthenticated ==
    (last.op = "get_spreadsheet" /\ ~last.authed)
    => /\ last.ret = None
       /\ last.msg = "Not authenticated"
       /\ last.calls = << >>

C8_Witness ==
    /\ last.op = "get_spreadsheet"
    /\ ~last.authed
    /\ last.url = SheetId
    /\ last.msg = "Not authenticated"

\* C9: authenticate, on success, stores credential and client and
\* is_authenticated is true; on a malformed payload or a rejected authorization
\* it returns failure with a cause and leaves the Credential Store as it was.
C9_Authenticate ==
    (last.op \in AuthOps)
    => /\ last.ret = TRUE =>
             /\ gsheets_creds = Some(last.payload)
             /\ gsheets_client = Some(last.payload)
             /\ is_authenticated(gsheets_client)
       /\ last.ret = FALSE =>
             /\ last.msg # ""
             /\ gsheets_creds = last.pre_creds
             /\ gsheets_client = last.pre_client
       /\ last.op = "authenticate_with_key" =>
             (last.ret = FALSE <=> (last.payload \notin Keys \/ last.f = 1))

C9_Witness ==
    /\ last.op = "authenticate_with_key"
    /\ last.payload = "key2"
    /\ last.f = 1
    /\ last.ret = FALSE
    /\ last.pre_creds = Some("key1")
    /\ gsheets_client = Some("key1")

(***************************************************************************)
(* The presentation layer (one action per button; each is one script run). *)
(***************************************************************************)
HU == <<"Name", "Description", "Status">>
HP == <<"Name", "Description", "Status", "Regular price", "Sale price", "Categories">>

\* the two worksheets of the remote spreadsheet at the start
InitRemotes ==
    { << <<HU, <<"a", "d1", "Published">>, <<"b", "d2", "Draft">>>>,
         <<HU, <<"c", "d3", "Draft">>>> >>,
      << <<HP, <<"a", "d1", "", "10", "", "">>, <<"a", "d2", "Draft", "", "", "">>>>,
         << >> >> }

Init ==
    /\ gsheets_creds = None
    /\ gsheets_client = None
    /\ spreadsheet = None
    /\ current_data = None
    /\ worksheet_index = 0
    /\ remote \in InitRemotes
    /\ openai_api_key = ""
    /\ generated_product = None
    /\ improved_description = None
    /\ improved_product_index = None
    /\ last = NoOp
    /\ steps = MaxSteps

\* outcome of a handler: what it leaves in the session and the remote store,
\* and the notice it shows
Shown(ret, msg, rem, ses, calls, exc) ==
    [ret |-> ret, msg |-> msg, remote |-> rem, session |-> ses, calls |-> calls,
     exc |-> exc]

\* Logout forgetting the client
logout_creds_only(creds, client) == [creds |-> None, client |-> client]

\* dashboard.py 54-57: the Logout button
logout(creds, client) == [creds |-> None, client |-> None]

\* Load Data storing the table and the index and leaving the handle
load_data_no_handle(client, rem, ses, spreadsheet_url, wi, f1, f2) ==
    IF is_authenticated(client)
    THEN LET o == get_spreadsheet(client, spreadsheet_url, rem, f1)
         IN  IF o.ret # None
             THEN LET d == get_worksheet_data(rem, o.ret, wi, f2)
                  IN  IF d.ret # None
                      THEN Shown(TRUE, "Data loaded successfully", rem,
                                 <<ses[1], d.ret, wi>>, o.calls \o d.calls,
                                 o.exc \/ d.exc)
                      ELSE Shown(FALSE, d.msg, rem, ses, o.calls \o d.calls,
                                 o.exc \/ d.exc)
             ELSE Shown(FALSE, o.msg, rem, ses, o.calls, o.exc)
    ELSE Shown(FALSE, "Please authenticate first", rem, ses, << >>, FALSE)

\* dashboard.py 69-85: the Load Data button
load_data(client, rem, ses, spreadsheet_url, wi, f1, f2) ==
    IF is_authenticated(client)
    THEN LET o == get_spreadsheet(client, spreadsheet_url, rem, f1)
         IN  IF o.ret # None
             THEN LET d == get_worksheet_data(rem, o.ret, wi, f2)
                  IN  IF d.ret # None
                      THEN Shown(TRUE, "Data loaded successfully", rem,
                                 <<o.ret, d.ret, wi>>, o.calls \o d.calls,
                                 o.exc \/ d.exc)
                      ELSE Shown(FALSE, d.msg, rem, ses, o.calls \o d.calls,
                                 o.exc \/ d.exc)
             ELSE Shown(FALSE, o.msg, rem, ses, o.calls, o.exc)
    ELSE Shown(FALSE, "Please authenticate first", rem, ses, << >>, FALSE)

\* the value of field col of the record at offset i of a DataFrame
At(df, i, col) == df.rows[i + 1][IndexOf(df.columns, col)]

\* df.at[i, col] = d[col] for col in d
Patch(df, i, d) ==
    [df EXCEPT !.rows[i + 1] =
        [c \in 1..Len(df.columns) |->
            IF df.columns[c] \in DOMAIN d THEN d[df.columns[c]] ELSE @[c]]]

\* dashboard.py 243-246: the Analytics tab puts the converted column back
\* into the table it was handed, which is the cached one
price_to_numeric(df) ==
    [df EXCEPT !.rows =
        [i \in 1..Len(df.rows) |->
            [c \in 1..Len(df.columns) |->
                IF df.columns[c] = "Regular price"
                THEN to_numeric(df.rows[i][c]) ELSE df.rows[i][c]]]]

\* dashboard.py 88-246: the main area, rendered when a table is cached
render_main(data) == IF data = None THEN None ELSE Some(price_to_numeric(data[1]))

\* a script run: the handler of the button pressed, then, unless the handler
\* raised, the rest of the script, which renders the main area
script_run(r) ==
    IF r.exc THEN r ELSE [r EXCEPT !.session[2] = render_main(@)]

Statuses == {"Published", "Draft"}
PriceColumns == {"Regular price", "Sale price"}
Zero == "f:0"

\* dashboard.py 164-168: the value the number input of a price starts with
price_value(v) == IF v # NaN /\ IsNumber(v) THEN ToFloat(v) ELSE Zero

\* what the user may leave in the edit form for record i: the pre-filled texts,
\* or a new Name; for Status one of the two options
Columns(df) == {df.columns[c] : c \in 1..Len(df.columns)}

EditInputs(df, i) ==
    {[col \in Columns(df) |->
         IF col = "Status" THEN st
         ELSE IF col \in PriceColumns THEN price_value(At(df, i, col))
         ELSE IF col \in changed THEN "w" ELSE At(df, i, col)] :
        st \in Statuses, changed \in {{}, {"Name"}}}

\* dashboard.py 152-171: the record the edit form submits
edited_product(df, i, inp) ==
    [col \in Columns(df) |->
        IF col = "record_id" THEN At(df, i, col) ELSE inp[col]]

\* Save Changes passing the offset itself as the row index
save_changes_offset(rem, ses, i, inp, f) ==
    LET df == ses[2][1]
        rec == edited_product(df, i, inp)
        u == update_row(rem, ses[1], ses[3], i, rec, f)
    IN  IF u.ret
        THEN Shown(TRUE, u.msg, u.remote, <<ses[1], Some(Patch(df, i, rec)), ses[3]>>,
                   u.calls, u.exc)
        ELSE Shown(FALSE, u.msg, u.remote, ses, u.calls, u.exc)

\* dashboard.py 176-194: Save Changes of the edit form for the record at offset i
save_changes(rem, ses, i, inp, f) ==
    LET df == ses[2][1]
        rec == edited_product(df, i, inp)
        u == update_row(rem, ses[1], ses[3], i + 1, rec, f)
    IN  IF u.ret
        THEN Shown(TRUE, u.msg, u.remote, <<ses[1], Some(Patch(df, i, rec)), ses[3]>>,
                   u.calls, u.exc)
        ELSE Shown(FALSE, u.msg, u.remote, ses, u.calls, u.exc)

\* what the user may leave in the add form
AddInputs(df) ==
    {[col \in Columns(df) \ {"record_id"} |->
         IF col = "Status" THEN st
         ELSE IF col \in PriceColumns THEN Zero
         ELSE IF col = "Name" THEN name ELSE ""] :
        st \in Statuses, name \in {"", "w"}}

\* dashboard.py 218-236: Add Product; f2 is the fault of the reload
add_product(rem, ses, inp, f, f2) ==
    LET a == add_row(rem, ses[1], ses[3], inp, f)
    IN  IF a.ret
        THEN LET d == get_worksheet_data(a.remote, ses[1], ses[3], f2)
             IN  Shown(TRUE, a.msg, a.remote,
                       IF d.ret # None THEN <<ses[1], d.ret, ses[3]>> ELSE ses,
                       a.calls \o d.calls, a.exc \/ d.exc)
        ELSE Shown(FALSE, a.msg, a.remote, ses, a.calls, a.exc)

\* dashboard.py 24-33: JSON File Upload, Authenticate with File
AuthenticateWithFile ==
    \E p \in {"key1"}, f \in {0} :
        LET r == CallMethod("authenticate_with_key_file",
                            authenticate_with_key(gsheets_creds, gsheets_client, p, f),
                            gsheets_creds, gsheets_client)
        IN  /\ ~is_authenticated(gsheets_client)
            /\ Step
            /\ UNCHANGED ai
            /\ gsheets_creds' = r.creds
            /\ gsheets_client' = r.client
            /\ last' = Done([NoOp EXCEPT !.op = "AuthenticateWithFile",
                                         !.payload = p, !.f = f], r)
            /\ UNCHANGED <<spreadsheet, current_data, worksheet_index, remote>>

\* dashboard.py 34-44: API Key, Authenticate
Authenticate ==
    \E p \in Payloads : \E f \in AuthFaults(p) :
        LET r == IF p # ""
                 THEN CallMethod("authenticate_with_key",
                                 authenticate_with_key(gsheets_creds, gsheets_client, p, f),
                                 gsheets_creds, gsheets_client)
                 ELSE [exc |-> FALSE, ret |-> FALSE,
                       msg |-> "Please enter a valid JSON key",
                       creds |-> gsheets_creds, client |-> gsheets_client,
                       calls |-> << >>]
        IN  /\ ~is_authenticated(gsheets_client)
            /\ Step
            /\ UNCHANGED ai
            /\ gsheets_creds' = r.creds
            /\ gsheets_client' = r.client
            /\ last' = Done([NoOp EXCEPT !.op = "Authenticate",
                                         !.payload = p, !.f = f], r)
            /\ UNCHANGED <<spreadsheet, current_data, worksheet_index, remote>>

\* dashboard.py 45-51: OAuth, Authenticate with Google
AuthenticateWithGoogle ==
    LET r == CallMethod("authenticate_with_oauth",
                        authenticate_with_oauth(gsheets_creds, gsheets_client),
                        gsheets_creds, gsheets_client)
    IN  /\ ~is_authenticated(gsheets_client)
        /\ Step
        /\ UNCHANGED ai
        /\ gsheets_creds' = r.creds
        /\ gsheets_client' = r.client
        /\ last' = Done([NoOp EXCEPT !.op = "AuthenticateWithGoogle"], r)
        /\ UNCHANGED <<spreadsheet, current_data, worksheet_index, remote>>

Logout ==
    LET r == logout(gsheets_creds, gsheets_client)
    IN  /\ is_authenticated(gsheets_client)
        /\ Step
        /\ UNCHANGED ai
        /\ gsheets_creds' = r.creds
        /\ gsheets_client' = r.client
        /\ last' = Done([NoOp EXCEPT !.op = "Logout"],
                        [ret |-> TRUE, msg |-> "", calls |-> << >>, exc |-> FALSE])
        /\ UNCHANGED <<spreadsheet, current_data, worksheet_index, remote>>

\* a write of the presentation layer goes through, fails at its first call or
\* at its write call, or is carried out with its reply lost
UiFaults == {0, 1, WriteCalls, WriteCalls + 1}

\* what the user types into the Spreadsheet URL box
UiUrls == {Host \o Marker \o SheetId \o <<"/","e">>, <<"X","2">>}

\* the worksheet index and the read matter only when the open succeeds
Opens(url, f1) ==
    is_authenticated(gsheets_client) /\ spreadsheet_id(url) = SheetId /\ f1 = 0

\* open_by_key is reached only when a client is active
OpenFaults(url) ==
    IF is_authenticated(gsheets_client) /\ spreadsheet_id(url) = SheetId
    THEN 0..1 ELSE {0}

LoadData ==
    \E url \in UiUrls : \E f1 \in OpenFaults(url) :
    \E wi \in IF Opens(url, f1) THEN 0..Len(remote) ELSE {0} :
    \E f2 \in IF Opens(url, f1) /\ wi < Len(remote) THEN 0..ReadCalls ELSE {0} :
        LET r == script_run(load_data(gsheets_client, remote, session, url, wi, f1, f2))
        IN  /\ Step
            /\ UNCHANGED ai
            /\ spreadsheet' = r.session[1]
            /\ current_data' = r.session[2]
            /\ worksheet_index' = r.session[3]
            /\ last' = Done([NoOp EXCEPT !.op = "LoadData", !.url = url, !.wi = wi,
                                         !.f = f1], r)
            /\ UNCHANGED <<gsheets_creds, gsheets_client, remote>>

\* the main area is rendered only when a table is cached (dashboard.py 88)
SaveChanges ==
    /\ current_data # None
    /\ \E i \in 0..(Len(current_data[1].rows) - 1) :
       \E inp \in EditInputs(current_data[1], i), f \in UiFaults :
        LET r == script_run(save_changes(remote, session, i, inp, f))
        IN  /\ Step
            /\ UNCHANGED ai
            /\ Fits(r.remote)
            /\ remote' = r.remote
            /\ current_data' = r.session[2]
            /\ last' = Done([NoOp EXCEPT !.op = "SaveChanges", !.sp = spreadsheet,
                                         !.wi = worksheet_index, !.row_index = i,
                                         !.data_dict = edited_product(current_data[1], i, inp),
                                         !.f = f], r)
            /\ UNCHANGED <<gsheets_creds, gsheets_client, spreadsheet, worksheet_index>>

AddProduct ==
    /\ current_data # None
    /\ \E inp \in AddInputs(current_data[1]), f \in UiFaults :
       \E f2 \in IF f = 0 THEN 0..1 ELSE {0} :
        LET r == script_run(add_product(remote, session, inp, f, f2))
        IN  /\ Step
            /\ UNCHANGED ai
            /\ Fits(r.remote)
            /\ remote' = r.remote
            /\ current_data' = r.session[2]
            /\ last' = Done([NoOp EXCEPT !.op = "AddProduct", !.sp = spreadsheet,
                                         !.wi = worksheet_index, !.data_dict = inp,
                                         !.f = f], r)
            /\ UNCHANGED <<gsheets_creds, gsheets_client, spreadsheet, worksheet_index>>

Next ==
    \/ AuthenticateWithFile
    \/ Authenticate
    \/ AuthenticateWithGoogle
    \/ Logout
    \/ LoadData
    \/ SaveChanges
    \/ AddProduct

Spec == Init /\ [][Next]_vars

(***************************************************************************)
(* The AI sidebar of app.py, which runs before render_dashboard.           *)
(***************************************************************************)
\* df.iloc[i].to_dict()
RowDict(df, i) == [col \in Columns(df) |-> At(df, i, col)]

\* df['Name'].tolist()
Names(df) == [i \in 1..Len(df.rows) |-> At(df, i - 1, "Name")]

\* d with d[k] = v
With(d, k, v) == [x \in DOMAIN d \cup {k} |-> IF x = k THEN v ELSE d[x]]

\* app.py 143-167: Add to Google Sheets; f2 is the fault of the reload
add_to_google_sheets(rem, ses, product, f, f2) ==
    IF ses[1] # None
    THEN add_product(rem, ses, product, f, f2)
    ELSE Shown(FALSE, "Please load a spreadsheet first", rem, ses, << >>, FALSE)

\* df.iloc[product_index] raises: no table is cached or it has no such record
NoRecord(ses, product_index) ==
    ses[2] = None \/ product_index >= Len(ses[2][1].rows)

\* app.py 296-299: the cached record with the improved description
improved_product(ses, description, product_index) ==
    With(RowDict(ses[2][1], product_index), "Description", description)

\* Update in Google Sheets passing the offset itself as the row index
update_in_google_sheets_offset(rem, ses, description, product_index, f) ==
    IF ses[1] = None
    THEN Shown(FALSE, "Please load a spreadsheet first", rem, ses, << >>, FALSE)
    ELSE IF NoRecord(ses, product_index)
    THEN Shown(FALSE, "", rem, ses, << >>, TRUE)
    ELSE LET df == ses[2][1]
             product_data == improved_product(ses, description, product_index)
             u == update_row(rem, ses[1], ses[3], product_index, product_data, f)
         IN  IF u.ret
             THEN Shown(TRUE, u.msg, u.remote,
                        <<ses[1],
                          Some(Patch(df, product_index,
                                     [x \in {"Description"} |-> description])),
                          ses[3]>>,
                        u.calls, u.exc)
             ELSE Shown(FALSE, u.msg, u.remote, ses, u.calls, u.exc)

\* app.py 286-314: Update in Google Sheets
update_in_google_sheets(rem, ses, description, product_index, f) ==
    IF ses[1] = None
    THEN Shown(FALSE, "Please load a spreadsheet first", rem, ses, << >>, FALSE)
    ELSE IF NoRecord(ses, product_index)
    THEN Shown(FALSE, "", rem, ses, << >>, TRUE)
    ELSE LET df == ses[2][1]
             product_data == improved_product(ses, description, product_index)
             u == update_row(rem, ses[1], ses[3], product_index + 1, product_data, f)
         IN  IF u.ret
             THEN Shown(TRUE, u.msg, u.remote,
                        <<ses[1],
                          Some(Patch(df, product_index,
                                     [x \in {"Description"} |-> description])),
                          ses[3]>>,
                        u.calls, u.exc)
             ELSE Shown(FALSE, u.msg, u.remote, ses, u.calls, u.exc)

\* the replies the service gives the sidebar
UiProductReplies == {Some(<<"[fence]json", "{product}", "[fence]">>),
                     Some(<<"Here", "{product}">>), Some(<<"{}">>)}
UiTextReplies == {Some(" better "), Some(" ")}

\* the service call of the sidebar answers, or fails whatever the reply
\* would have been
UiProductFaults(reply) == IF reply = Some(<<"{}">>) THEN {0} ELSE 0..1
UiTextFaults(reply) == IF reply = Some(" ") THEN {0} ELSE 0..1

\* app.py 89-94: a key typed into the OpenAI API Key box
SetApiKey ==
    \E k \in {"sk-1"} :
        LET r == set_api_key(openai_api_key, k)
        IN  /\ ~is_configured(openai_api_key)
            /\ Step
            /\ openai_api_key' = r.key
            /\ last' = Done([NoOp EXCEPT !.op = "SetApiKey", !.payload = k], r)
            /\ UNCHANGED <<gsheets_creds, gsheets_client, session, remote,
                           generated_product, improved_description,
                           improved_product_index>>

\* app.py 95-99: Clear API Key
ClearApiKey ==
    LET r == set_api_key(openai_api_key, "")
    IN  /\ is_configured(openai_api_key)
        /\ Step
        /\ openai_api_key' = r.key
        /\ last' = Done([NoOp EXCEPT !.op = "ClearApiKey"], r)
        /\ UNCHANGED <<gsheets_creds, gsheets_client, session, remote,
                       generated_product, improved_description,
                       improved_product_index>>

\* app.py 104-126: Generate Product; the product is kept when it is truthy
GenerateProduct ==
    \E reply \in UiProductReplies : \E f \in UiProductFaults(reply) :
        LET r == generate_product(openai_api_key, reply, f)
            kept == r.ret # None /\ DOMAIN r.ret[1] # {}
        IN  /\ is_configured(openai_api_key)
            /\ Step
            /\ generated_product' = IF kept THEN r.ret ELSE generated_product
            /\ last' = Done([NoOp EXCEPT !.op = "GenerateProduct", !.reply = reply,
                                         !.f = f], r)
            /\ UNCHANGED <<gsheets_creds, gsheets_client, session, remote,
                           openai_api_key, improved_description,
                           improved_product_index>>

AddToGoogleSheets ==
    /\ is_configured(openai_api_key)
    /\ generated_product # None
    /\ \E f \in IF spreadsheet # None THEN UiFaults ELSE {0} :
       \E f2 \in IF spreadsheet # None /\ f = 0 THEN 0..1 ELSE {0} :
        LET r == script_run(add_to_google_sheets(remote, session, generated_product[1],
                                                 f, f2))
        IN  /\ Step
            /\ Fits(r.remote)
            /\ remote' = r.remote
            /\ current_data' = r.session[2]
            /\ last' = Done([NoOp EXCEPT !.op = "AddToGoogleSheets", !.sp = spreadsheet,
                                         !.wi = worksheet_index,
                                         !.data_dict = generated_product[1],
                                         !.f = f], r)
            /\ UNCHANGED <<gsheets_creds, gsheets_client, spreadsheet, worksheet_index,
                           ai>>

\* app.py 248-276: Improve Description for the product picked by name; the
\* remembered offset is that of the first record with the name
ImproveDescription ==
    /\ is_configured(openai_api_key)
    /\ current_data # None
    /\ \E o \in 0..(Len(current_data[1].rows) - 1) :
       \E reply \in UiTextReplies : \E f \in UiTextFaults(reply) :
        LET names == Names(current_data[1])
            selected_product == names[o + 1]
            product_index == IndexOf(names, selected_product) - 1
            r == improve_product_description(openai_api_key, reply, f)
            kept == r.ret # None /\ r.ret[1] # ""
        IN  /\ selected_product # ""
            /\ Step
            /\ improved_description' = IF kept THEN r.ret ELSE improved_description
            /\ improved_product_index' =
                  IF kept THEN Some(product_index) ELSE improved_product_index
            /\ last' = [Done([NoOp EXCEPT !.op = "ImproveDescription", !.reply = reply,
                                          !.row_index = product_index, !.f = f], r)
                           EXCEPT !.improved_for =
                                     IF kept
                                     THEN Some([sp |-> spreadsheet, wi |-> worksheet_index,
                                                offset |-> o])
                                     ELSE @]
            /\ UNCHANGED <<gsheets_creds, gsheets_client, session, remote,
                           openai_api_key, generated_product>>

UpdateInGoogleSheets ==
    /\ is_configured(openai_api_key)
    /\ improved_description # None
    /\ \E f \in IF spreadsheet # None THEN UiFaults ELSE {0} :
        LET r == script_run(update_in_google_sheets(remote, session,
                                improved_description[1], improved_product_index[1], f))
        IN  /\ Step
            /\ Fits(r.remote)
            /\ remote' = r.remote
            /\ current_data' = r.session[2]
            /\ last' = Done([NoOp EXCEPT !.op = "UpdateInGoogleSheets",
                                         !.sp = spreadsheet, !.wi = worksheet_index,
                                         !.row_index = improved_product_index[1],
                                         !.data_dict =
                                            IF NoRecord(session, improved_product_index[1])
                                            THEN << >>
                                            ELSE improved_product(session,
                                                    improved_description[1],
                                                    improved_product_index[1]),
                                         !.f = f], r)
            /\ UNCHANGED <<gsheets_creds, gsheets_client, spreadsheet, worksheet_index,
                           ai>>

(***************************************************************************)
(* The bulk operations of dashboard_ui.py (render_bulk_operations_ui),     *)
(* taken as rendered with the cached table and the session's adapter.      *)
(* The result of a loop: the remote store and the table it leaves, the     *)
(* number of successes, the remote calls, the offsets it went through, the *)
(* remote calls of each pass and whether the update of each pass succeeded.*)
(***************************************************************************)
Looped(rem, df, count, calls, offsets, passes, oks) ==
    [remote |-> rem, df |-> df, count |-> count, calls |-> calls, offsets |-> offsets,
     passes |-> passes, oks |-> oks]

\* one more pass in front of the passes rest: the update u of offset o
Pass(u, o, rest) ==
    Looped(rest.remote, rest.df, rest.count + (IF u.ret THEN 1 ELSE 0),
           u.calls \o rest.calls, <<o>> \o rest.offsets, <<u.calls>> \o rest.passes,
           <<u.ret>> \o rest.oks)

\* the loop of Update Status leaving off at the first update that fails
RECURSIVE update_status_stop(_, _, _, _, _, _)
update_status_stop(rem, ses, df, selected_products, new_status, fs) ==
    IF selected_products = << >> THEN Looped(rem, df, 0, << >>, << >>, << >>, << >>)
    ELSE LET product_index == IndexOf(Names(df), Head(selected_products)) - 1
             product_data == With(RowDict(df, product_index), "Status", new_status)
             u == update_row(rem, ses[1], ses[3], product_index + 1, product_data,
                             Head(fs))
             patched == IF u.ret
                        THEN Patch(df, product_index, [x \in {"Status"} |-> new_status])
                        ELSE df
         IN  Pass(u, product_index,
                  IF u.ret
                  THEN update_status_stop(u.remote, ses, patched, Tail(selected_products),
                                          new_status, Tail(fs))
                  ELSE Looped(u.remote, df, 0, << >>, << >>, << >>, << >>))

\* dashboard_ui.py 374-390: the loop of Update Status over the selected names;
\* fs[k] is the fault of the k-th update
RECURSIVE update_status(_, _, _, _, _, _)
update_status(rem, ses, df, selected_products, new_status, fs) ==
    IF selected_products = << >> THEN Looped(rem, df, 0, << >>, << >>, << >>, << >>)
    ELSE LET product_index == IndexOf(Names(df), Head(selected_products)) - 1
             product_data == With(RowDict(df, product_index), "Status", new_status)
             u == update_row(rem, ses[1], ses[3], product_index + 1, product_data,
                             Head(fs))
             patched == IF u.ret
                        THEN Patch(df, product_index, [x \in {"Status"} |-> new_status])
                        ELSE df
         IN  Pass(u, product_index,
                  update_status(u.remote, ses, patched, Tail(selected_products),
                                new_status, Tail(fs)))

\* the number a float stands for, and the float of a number
Amount(v) == (IndexOf(NumFloat, v) - 1) * 10
FloatOf(n) == NumFloat[(n \div 10) + 1]

\* dashboard_ui.py 466-478: the new Regular price; change is "set" or "decrease"
\* by amount; max(0, nan) is 0
new_regular_price(v, change, amount) ==
    IF change = "set" THEN FloatOf(Max(0, amount))
    ELSE IF v = NaN THEN Zero
    ELSE FloatOf(Max(0, Amount(ToFloat(v)) - amount))

\* dashboard_ui.py 481-493: the new Sale price; float raises for a text that
\* is no number and the price is left as it is
new_sale_price(v, change, amount) ==
    IF v # NaN /\ ~IsNumber(v) THEN v
    ELSE IF change = "set" THEN FloatOf(Max(0, amount))
    ELSE IF v = NaN THEN Zero
    ELSE FloatOf(Max(0, Amount(ToFloat(v)) - amount))

\* the fields of price_field that the record has
PriceFields(price_field, d) ==
    (IF price_field = "Both" THEN PriceColumns ELSE {price_field}) \cap DOMAIN d

\* dashboard_ui.py 462-493: the record with its prices changed
repriced(d, price_field, change, amount) ==
    [x \in DOMAIN d |->
        IF x \notin PriceFields(price_field, d) THEN d[x]
        ELSE IF x = "Regular price" THEN new_regular_price(d[x], change, amount)
        ELSE new_sale_price(d[x], change, amount)]

\* dashboard_ui.py 461-510: the loop of Update Prices over the records from
\* offset o on
RECURSIVE update_prices(_, _, _, _, _, _, _, _)
update_prices(rem, ses, df, o, price_field, change, amount, fs) ==
    IF o >= Len(df.rows) THEN Looped(rem, df, 0, << >>, << >>, << >>, << >>)
    ELSE LET product_data == repriced(RowDict(df, o), price_field, change, amount)
             u == update_row(rem, ses[1], ses[3], o + 1, product_data, Head(fs))
             patched ==
                 IF u.ret
                 THEN Patch(df, o, [x \in PriceFields(price_field, product_data) |->
                                       product_data[x]])
                 ELSE df
         IN  Pass(u, o, update_prices(u.remote, ses, patched, o + 1, price_field,
                                      change, amount, Tail(fs)))

\* the names to pick in the multiselect: one name, or two in either order
Selections(df) ==
    LET names == {Names(df)[i] : i \in 1..Len(df.rows)}
    IN  {<<n>> : n \in names} \cup {s \in names \X names : s[1] # s[2]}

\* every update of the loop goes through, or one of them fails at its write
LoopFaults(n) ==
    {[k \in 1..n |-> IF k = bad THEN WriteCalls ELSE 0] : bad \in 0..n}

\* dashboard_ui.py 370-400: Update Status
BulkStatusUpdate ==
    /\ current_data # None
    /\ \E selected_products \in Selections(current_data[1]), new_status \in Statuses :
       \E fs \in LoopFaults(Len(selected_products)) :
        LET l == update_status(remote, session, current_data[1], selected_products,
                               new_status, fs)
        IN  /\ Step
            /\ Fits(l.remote)
            /\ remote' = l.remote
            /\ current_data' = render_main(Some(l.df))
            /\ last' = Done([NoOp EXCEPT !.op = "BulkStatusUpdate", !.sp = spreadsheet,
                                         !.wi = worksheet_index,
                                         !.selected = l.offsets, !.passes = l.passes,
                                         !.oks = l.oks, !.names = selected_products,
                                         !.data_dict = [x \in {"Status"} |-> new_status]],
                            [ret |-> l.count, msg |-> "Updated status for products",
                             calls |-> l.calls, exc |-> FALSE])
            /\ UNCHANGED <<gsheets_creds, gsheets_client, spreadsheet, worksheet_index,
                           ai>>

\* the preview of the price tab needs these columns (dashboard_ui.py 447-455)
PreviewColumns == {"Name", "Regular price", "Sale price", "Categories"}

\* dashboard_ui.py 458-512: Update Prices, no category filter
BulkPriceUpdate ==
    /\ current_data # None
    /\ PreviewColumns \subseteq Columns(current_data[1])
    /\ Len(current_data[1].rows) > 0
    /\ \E price_field \in {"Regular price", "Both"} :
       \E change \in {<<"set", 20>>, <<"decrease", 10>>} :
       \E fs \in LoopFaults(Len(current_data[1].rows)) :
        LET l == update_prices(remote, session, current_data[1], 0, price_field,
                               change[1], change[2], fs)
        IN  /\ Step
            /\ Fits(l.remote)
            /\ remote' = l.remote
            /\ current_data' = render_main(Some(l.df))
            /\ last' = Done([NoOp EXCEPT !.op = "BulkPriceUpdate", !.sp = spreadsheet,
                                         !.wi = worksheet_index,
                                         !.selected = l.offsets, !.passes = l.passes,
                                         !.oks = l.oks,
                                         !.payload = price_field],
                            [ret |-> l.count, msg |-> "Updated prices for products",
                             calls |-> l.calls, exc |-> FALSE])
            /\ UNCHANGED <<gsheets_creds, gsheets_client, spreadsheet, worksheet_index,
                           ai>>

(***************************************************************************)
(* The whole presentation layer, from a fresh session or from one in which *)
(* a worksheet has been loaded.                                            *)
(***************************************************************************)
MaxAppSteps == 2     \* user actions per behaviour of the whole application

\* the session after Authenticate with key1 and Load Data of worksheet wi
Loaded(rem, wi) ==
    script_run(load_data(Some("key1"), rem, <<None, None, 0>>,
                         Host \o Marker \o SheetId \o <<"/","e">>, wi, 0, 0)).session

InitApp ==
    /\ remote \in InitRemotes
    /\ \/ /\ gsheets_creds = None /\ gsheets_client = None
          /\ spreadsheet = None /\ current_data = None /\ worksheet_index = 0
       \/ /\ gsheets_creds = Some("key1") /\ gsheets_client = Some("key1")
          /\ \E wi \in {0} :
                /\ Loaded(remote, wi)[2] # None
                /\ spreadsheet = Loaded(remote, wi)[1]
                /\ current_data = Loaded(remote, wi)[2]
                /\ worksheet_index = Loaded(remote, wi)[3]
    /\ openai_api_key = IF current_data = None THEN "" ELSE "sk-env"
    /\ generated_product = None
    /\ improved_description = None
    /\ improved_product_index = None
    /\ last = NoOp
    /\ steps = MaxAppSteps

(***************************************************************************)
(* The description improver alone: Load Data, Improve Description and      *)
(* Update in Google Sheets in any order, from a session with a worksheet   *)
(* loaded and a key configured.                                            *)
(***************************************************************************)
MaxImproverSteps == 3    \* user actions per behaviour of the improver

\* a session in which Load Data has read one of the worksheets (dashboard.py
\* 75-78), with the given key and n steps to go
InitLoaded(key, n) ==
    /\ remote \in InitRemotes
    /\ gsheets_creds = Some("key1")
    /\ gsheets_client = Some("key1")
    /\ \E wi \in 0..(Len(remote) - 1) :
          /\ Loaded(remote, wi)[2] # None
          /\ spreadsheet = Loaded(remote, wi)[1]
          /\ current_data = Loaded(remote, wi)[2]
          /\ worksheet_index = Loaded(remote, wi)[3]
    /\ openai_api_key = key
    /\ generated_product = None
    /\ improved_description = None
    /\ improved_product_index = None
    /\ last = NoOp
    /\ steps = n

NextImprover ==
    \/ LoadData
    \/ ImproveDescription
    \/ UpdateInGoogleSheets

SpecImprover == InitLoaded("sk-env", MaxImproverSteps) /\ [][NextImprover]_vars

(***************************************************************************)
(* The writes alone: the three writing operations of the adapter called    *)
(* directly and the two forms that write, in a session with a worksheet    *)
(* loaded.                                                                 *)
(***************************************************************************)
MaxWriteSteps == 1       \* writes per behaviour

NextWrites ==
    \/ AdUpdateRow
    \/ AdAddRow
    \/ AdDeleteRow
    \/ SaveChanges
    \/ AddProduct

SpecWrites == InitLoaded("", MaxWriteSteps) /\ [][NextWrites]_vars

(***************************************************************************)
(* The shared worksheet.  The spreadsheet is opened by its URL and is not  *)
(* this session's alone: another actor inserts or deletes data rows of it  *)
(* between this session's Load Data and its Save Changes.                  *)
(***************************************************************************)
MaxSharedSteps == 2      \* edits, of the session and of others, per behaviour

\* the grid with the row values put in before row r
InsertRow(grid, r, values) ==
    [i \in 1..(Len(grid) + 1) |->
        IF i < r THEN grid[i] ELSE IF i = r THEN values ELSE grid[i - 1]]

\* the rows another actor puts in
OtherRows == {<<"x">>}

\* another actor inserts a data row
OtherInsertsRow ==
    \E w \in 1..Len(remote) :
    \E r \in 2..(Len(remote[w]) + 1), values \in OtherRows :
        LET rem == [remote EXCEPT ![w] = InsertRow(@, r, values)]
        IN  /\ Step
            /\ Fits(rem)
            /\ remote' = rem
            /\ last' = [NoOp EXCEPT !.op = "other_insert", !.wi = w - 1,
                                    !.row_index = r, !.pre_remote = remote,
                                    !.pre_session = session, !.ret = TRUE]
            /\ UNCHANGED <<gsheets_creds, gsheets_client, session, ai>>

\* another actor deletes a data row
OtherDeletesRow ==
    \E w \in 1..Len(remote) :
    \E r \in 2..Len(remote[w]) :
        /\ Step
        /\ remote' = [remote EXCEPT ![w] = DeleteRow(@, r)]
        /\ last' = [NoOp EXCEPT !.op = "other_delete", !.wi = w - 1,
                                !.row_index = r, !.pre_remote = remote,
                                !.pre_session = session, !.ret = TRUE]
        /\ UNCHANGED <<gsheets_creds, gsheets_client, session, ai>>

NextShared ==
    \/ OtherInsertsRow
    \/ OtherDeletesRow
    \/ SaveChanges

SpecShared == InitLoaded("", MaxSharedSteps) /\ [][NextShared]_vars

NextApp ==
    \/ Next
    \/ SetApiKey
    \/ ClearApiKey
    \/ GenerateProduct
    \/ AddToGoogleSheets
    \/ ImproveDescription
    \/ UpdateInGoogleSheets
    \/ BulkStatusUpdate
    \/ BulkPriceUpdate

SpecApp == InitApp /\ [][NextApp]_vars

(***************************************************************************)
(* Properties of the presentation layer.                                   *)
(***************************************************************************)
UiAuthOps == {"AuthenticateWithFile", "Authenticate", "AuthenticateWithGoogle"}
UiStoreOps == {"LoadData", "SaveChanges", "AddProduct"}

\* C6 as stated: every authentication path of the presentation layer ends with
\* a (success, message) pair that is displayed; none raises.
C6_AuthPathsReturnPair ==
    (last.op \in UiAuthOps) => (~last.raised /\ last.msg # "")

\* C7 as stated: a store operation attempted while no client is active fails
\* with a not-authenticated result, issues no remote call and leaves the remote
\* sheet unchanged.
C7_NoClientNoStoreAccess ==
    (last.op \in UiStoreOps /\ ~last.authed)
    => /\ last.ret = FALSE
       /\ last.msg \in {"Not authenticated", "Please authenticate first"}
       /\ last.calls = << >>
       /\ remote = last.pre_remote

\* C10: Logout clears credential and client; while no client is active Load
\* Data opens no spreadsheet and leaves the session state unchanged; and a
\* client becomes active again only by an authenticate that succeeds.
C10_LogoutBlocksLoad ==
    /\ last.op = "Logout" =>
          /\ gsheets_creds = None
          /\ gsheets_client = None
          /\ ~is_authenticated(gsheets_client)
    /\ (last.op = "LoadData" /\ ~last.authed) =>
          /\ last.calls = << >>
          /\ session = last.pre_session
          /\ remote = last.pre_remote
    /\ (is_authenticated(gsheets_client) /\ ~last.authed) =>
          (last.op \in UiAuthOps /\ last.ret = TRUE)

\* Load Data pressed after a logout that followed a successful load
C10_Witness ==
    /\ last.op = "LoadData"
    /\ ~last.authed
    /\ spreadsheet # None
    /\ current_data # None
    /\ last.msg = "Please authenticate first"


(***************************************************************************)
(* Properties of the adapter, continued.                                   *)
(***************************************************************************)
\* the text after the first occurrence of the marker
AfterMarker(url) == SubSeq(url, Find(url, Marker, 1) + Len(Marker), Len(url))

\* t up to, not including, the first of the positions in stops
UpTo(t, stops) ==
    IF stops = {} THEN t
    ELSE SubSeq(t, 1, (CHOOSE i \in stops : \A j \in stops : i <= j) - 1)

\* the identifier get_spreadsheet asked the store to open
OpenedId == last.calls[1].values

\* C15 as stated: for an input containing "spreadsheets/d/" the identifier is
\* the text after the first occurrence of the marker and before the next "/";
\* an input without the marker is passed on unchanged.
C15_IdBeforeNextSlash ==
    (last.op = "get_spreadsheet" /\ last.authed)
    => /\ Len(last.calls) = 1
       /\ last.calls[1].api = "open_by_key"
       /\ OpenedId =
             IF Contains(last.url, Marker)
             THEN LET t == AfterMarker(last.url)
                  IN  UpTo(t, {i \in 1..Len(t) : t[i] = "/"})
             ELSE last.url

\* C15 amended: for an input containing "spreadsheets/d/" the identifier is the
\* text after the first occurrence of the marker and before the next "/" or
\* the next occurrence of the marker, whichever comes first (the rest of the
\* input when neither follows); an input without the marker is passed on
\* unchanged.
C15_IdBeforeSlashOrMarker ==
    (last.op = "get_spreadsheet" /\ last.authed)
    => /\ Len(last.calls) = 1
       /\ last.calls[1].api = "open_by_key"
       /\ OpenedId =
             IF Contains(last.url, Marker)
             THEN LET t == AfterMarker(last.url)
                  IN  UpTo(t, {i \in 1..Len(t) :
                                  t[i] = "/" \/ OccursAt(t, Marker, i)})
             ELSE last.url

C15_Witness ==
    /\ last.op = "get_spreadsheet"
    /\ last.authed
    /\ last.url = ExampleUrl
    /\ OpenedId = ExampleId


\* C16: read_worksheet on a worksheet whose grid has zero rows returns
\* (none, "Worksheet is empty") and builds no Table.
C16_EmptyWorksheet ==
    (/\ last.op = "get_worksheet_data"
     /\ HasWorksheet(last.pre_remote, last.sp, last.wi)
     /\ last.f = 0
     /\ PreGrid = << >>)
    => /\ last.ret = None
       /\ last.msg = "Worksheet is empty"
       /\ ~last.raised
       /\ remote = last.pre_remote

C16_Witness ==
    /\ last.op = "get_worksheet_data"
    /\ last.sp # None
    /\ last.f = 0
    /\ last.pre_remote = << << >> >>
    /\ last.calls = ReadPlan
    /\ last.msg = "Worksheet is empty"


\* the fields of the record handed to the last operation that the header of
\* the addressed worksheet does not have
ExtraFields ==
    {k \in DOMAIN last.data_dict :
        \A i \in 1..Len(RowValues(PreGrid, 1)) : RowValues(PreGrid, 1)[i] # k}

\* C17: insert_record never rejects a record for carrying fields absent from
\* the header: an insert no remote call of which fails succeeds, the fields
\* the header does not have are dropped, and the appended row has exactly one
\* cell per header field, in header order.
C17_ExtraFieldsDropped ==
    (/\ last.op = "add_row"
     /\ HasWorksheet(last.pre_remote, last.sp, last.wi)
     /\ last.f = 0)
    => LET headers == RowValues(PreGrid, 1)
           sent == last.calls[Len(last.calls)]
           row == PostGrid[Len(PostGrid)]
       IN  /\ last.ret = TRUE
           /\ sent.api = "append_row"
           /\ sent.values = row
           /\ Len(PostGrid) = Len(PreGrid) + 1
           /\ Len(row) = Len(headers)
           /\ \A c \in 1..Len(headers) :
                 row[c] = IF headers[c] \in DOMAIN last.data_dict
                          THEN last.data_dict[headers[c]] ELSE ""

C17_Witness ==
    /\ Succeeded("add_row")
    /\ ExtraFields = {"Extra"}
    /\ DOMAIN last.data_dict = {"Name", "Extra"}
    /\ PreGrid = <<H, <<"a", "">>>>
    /\ PostGrid = <<H, <<"a", "">>, <<"w", "">>>>


\* C18: read_worksheet on a grid in which a data row has fewer cells than the
\* header row returns a Table in which that record has every header field,
\* with "" for each missing trailing cell.
C18_ShortRowsFilled ==
    (/\ last.op = "get_worksheet_data"
     /\ HasWorksheet(last.pre_remote, last.sp, last.wi)
     /\ last.f = 0
     /\ PreGrid # << >>
     /\ Width(PreGrid) = Len(PreGrid[1])
     /\ \E i \in 2..Len(PreGrid) : Len(PreGrid[i]) < Len(PreGrid[1]))
    => /\ last.ret # None
       /\ last.ret[1].columns = PreGrid[1]
       /\ Len(last.ret[1].rows) = Len(PreGrid) - 1
       /\ \A i \in 1..Len(last.ret[1].rows) :
             /\ Len(last.ret[1].rows[i]) = Len(PreGrid[1])
             /\ \A c \in 1..Len(PreGrid[1]) :
                   last.ret[1].rows[i][c] =
                      IF c <= Len(PreGrid[i + 1]) THEN PreGrid[i + 1][c] ELSE ""

C18_Witness ==
    /\ last.op = "get_worksheet_data"
    /\ last.f = 0
    /\ HasWorksheet(last.pre_remote, last.sp, last.wi)
    /\ PreGrid = <<H, <<"a">>, <<"b", "a">>>>
    /\ last.ret # None
    /\ last.ret[1].rows = << <<"a", "">>, <<"b", "a">> >>


(***************************************************************************)
(* Properties of the cached table.                                         *)
(***************************************************************************)
\* the cached table before the last operation
PreData == last.pre_session[2]

\* what a read of the worksheet the session points at returns now
FreshRead == ReadBack(remote, worksheet_index)

ReloadOps == {"LoadData", "AddProduct", "AddToGoogleSheets"}
PatchOps == {"SaveChanges", "UpdateInGoogleSheets"}

\* the cell of record i that the last operation wrote for column c of the
\* cached table df is the value the cache now holds there
Mirrored(df, i, c) ==
    /\ i = last.row_index + 1
    /\ df.columns[c] \in DOMAIN last.data_dict
    /\ df.rows[i][c] = last.data_dict[df.columns[c]]
    /\ CellText(df.rows[i][c]) = Cell(remote[worksheet_index + 1], i + 1, c)

\* C12 as stated: the cached Table is mutated locally only as a mirror of a
\* successful remote write: a reload caches the table as read, every other
\* change of a cached cell is the value a successful write has just put into
\* the same field of the same remote record, and a failed write or a mere
\* re-render leaves the cache as it was.
C12_CacheMirrorsWrites ==
    (last.op \in ReloadOps \cup PatchOps \cup UiAuthOps \cup {"Logout"})
    => IF last.op \in ReloadOps /\ last.ret = TRUE
       THEN current_data \in {PreData, FreshRead}
       ELSE IF last.op \in PatchOps /\ last.ret = TRUE
       THEN /\ current_data # None
            /\ current_data[1].columns = PreData[1].columns
            /\ Len(current_data[1].rows) = Len(PreData[1].rows)
            /\ \A i \in 1..Len(PreData[1].rows), c \in 1..Len(PreData[1].columns) :
                  \/ current_data[1].rows[i][c] = PreData[1].rows[i][c]
                  \/ Mirrored(current_data[1], i, c)
       ELSE current_data = PreData

\* C13 as stated: after every successful remote write of the presentation
\* layer (add, edit, description update) the cached Table has the same
\* records in the same order as a fresh read of the worksheet.
C13_CacheEqualsFreshRead ==
    (last.op \in {"AddProduct", "AddToGoogleSheets"} \cup PatchOps /\ last.ret = TRUE)
    => current_data = FreshRead

\* C14 as stated: after a logout followed by a successful authenticate, the
\* Table loaded under the previous credential is no longer cached (no reload
\* has happened when the authenticate returns).
C14_ReauthenticationDropsCache ==
    (last.op \in UiAuthOps /\ last.ret = TRUE) => current_data = None


(***************************************************************************)
(* Properties of the content generation adapter.                           *)
(***************************************************************************)
\* the key stored before the last operation
PreKey == last.pre_ai[1]

\* the reply of the last operation, its code fences removed, is no JSON value
NotJson ==
    /\ last.reply # None
    /\ LET text == SelectSeq(last.reply[1], LAMBDA t : t \notin Fences)
       IN  ~(Len(text) = 1 /\ text[1] \in {"{product}", "{}", "null"})

\* C19: generate, given a reply that is not valid JSON after code-fence
\* stripping, or a failing service call, returns (none, message) and never
\* raises.
C19_GenerateNeverRaises ==
    (last.op = "generate_product")
    => /\ ~last.raised
       /\ (is_configured(PreKey) /\ (last.f = 1 \/ NotJson))
             => /\ last.ret = None
                /\ last.msg = "Error generating product"
                /\ last.calls = <<Create>>

C19_Witness ==
    /\ last.op = "generate_product"
    /\ last.f = 0
    /\ last.reply = Some(<<"Here", "{product}">>)
    /\ last.calls = <<Create>>
    /\ last.ret = None
    /\ last.msg = "Error generating product"

\* C20: no call to the content generation service is attempted while
\* is_configured() is false: generate and improve_description then return
\* (none, "OpenAI API key not configured"); is_configured() is true exactly
\* when the key last set, at runtime or from the environment, is non-empty,
\* so it is false again after the key is cleared.
C20_NoCallUnconfigured ==
    /\ (last.op \in {"generate_product", "improve_product_description"}
        /\ ~is_configured(PreKey))
          => /\ last.ret = None
             /\ last.msg = "OpenAI API key not configured"
             /\ last.calls = << >>
    /\ (last.op \in {"__init__", "set_api_key"})
          => (is_configured(openai_api_key) <=> last.payload # "")
    /\ (last.op \in {"generate_product", "improve_product_description"})
          => (is_configured(openai_api_key) <=> is_configured(PreKey))

\* a generate attempted with a well-formed reply at hand while, after an
\* earlier operation, no key is configured
C20_Witness ==
    /\ last.op = "generate_product"
    /\ last.pre_ai[1] = ""
    /\ last.reply = Some(<<"{product}">>)
    /\ last.msg = "OpenAI API key not configured"
    /\ steps = 0


(***************************************************************************)
(* Updates of the presentation layer and the remote rows they touch.       *)
(***************************************************************************)
UpdateOps == {"SaveChanges", "UpdateInGoogleSheets", "BulkStatusUpdate", "BulkPriceUpdate"}
BulkOps == {"BulkStatusUpdate", "BulkPriceUpdate"}

\* the cached offsets the last operation updated, in order, and the remote
\* calls of each of these updates
UpdateOffsets == IF last.op \in BulkOps THEN last.selected ELSE <<last.row_index>>
UpdatePasses == IF last.op \in BulkOps THEN last.passes ELSE <<last.calls>>

\* the calls of an update that read or replace a row
RowCalls(calls) == {k \in 1..Len(calls) : calls[k].api \in {"cell", "update_row"}}

\* the worksheet rows in which the stores a and b differ
ChangedRows(a, b, w) ==
    {n \in 1..Max(Len(a[w]), Len(b[w])) :
        n > Len(a[w]) \/ n > Len(b[w]) \/ a[w][n] # b[w][n]}

\* C11: every update the presentation layer issues for the cached record at
\* offset i (edit form, improved description, bulk status, bulk price) reads
\* missing cells from remote row i + 2 and replaces remote row i + 2, and
\* nothing else of the remote store changes.
C11_OffsetPlusTwo ==
    last.op \in UpdateOps =>
        /\ \A p \in 1..Len(UpdatePasses) :
              \A k \in RowCalls(UpdatePasses[p]) :
                 UpdatePasses[p][k].row = UpdateOffsets[p] + 2
        /\ Len(remote) = Len(last.pre_remote)
        /\ \A w \in 1..Len(remote) :
              ChangedRows(last.pre_remote, remote, w) \subseteq
                 IF w = last.wi + 1
                 THEN {UpdateOffsets[p] + 2 : p \in 1..Len(UpdateOffsets)}
                 ELSE {}

\* the second record and then the first have their status set in one bulk
\* update, and both remote rows are replaced
C11_Witness ==
    /\ last.op = "BulkStatusUpdate"
    /\ last.selected = <<1, 0>>
    /\ ChangedRows(last.pre_remote, remote, last.wi + 1) = {2, 3}

\* the improved description of the second record is written to remote row 3
C11_WitnessImproved ==
    /\ last.op = "UpdateInGoogleSheets"
    /\ last.row_index = 1
    /\ ChangedRows(last.pre_remote, remote, last.wi + 1) = {3}


(***************************************************************************)
(* The remote calls of update_row.                                         *)
(***************************************************************************)
CallsOf(calls, api) == SelectSeq(calls, LAMBDA c : c.api = api)

\* the header cells whose field the record does not supply
AbsentFields(headers, data_dict) ==
    {i \in 1..Len(headers) : headers[i] \notin DOMAIN data_dict}

\* C22: update_record fetches the header once, issues one single-cell read for
\* each header field absent from the record and none for a field present, then
\* exactly one row-replace at the remote row the cells were read from; if the
\* header fetch or a cell read fails, no row-replace is issued and the remote
\* sheet is unchanged.
C22_UpdateCallSequence ==
    (last.op = "update_row" /\ HasWorksheet(last.pre_remote, last.sp, last.wi))
    => LET headers == RowValues(PreGrid, 1)
           absent == AbsentFields(headers, last.data_dict)
           fetches == CallsOf(last.calls, "row_values")
           reads == CallsOf(last.calls, "cell")
           replaces == CallsOf(last.calls, "update_row")
       IN  /\ Len(fetches) <= 1
           /\ \A k \in 1..Len(fetches) : fetches[k].row = 1
           /\ Len(reads) <= Cardinality(absent)
           /\ \A k \in 1..Len(reads) :
                 /\ reads[k].row = last.row_index + 1
                 /\ reads[k].col \in 1..Len(headers)
                 /\ headers[reads[k].col] \notin DOMAIN last.data_dict
           /\ Len(replaces) <= 1
           /\ replaces # << >> =>
                 /\ Len(fetches) = 1
                 /\ Len(reads) = Cardinality(absent)
                 /\ replaces[1].row = last.row_index + 1
                 /\ last.calls[Len(last.calls)] = replaces[1]
           /\ last.f = 0 => Len(replaces) = 1
           /\ last.f \in 1..(2 + Cardinality(absent)) =>
                 /\ replaces = << >>
                 /\ last.ret = FALSE
                 /\ remote = last.pre_remote

\* an update supplying Status only: one cell read for Name, then the replace
C22_Witness ==
    /\ last.op = "update_row"
    /\ HasWorksheet(last.pre_remote, last.sp, last.wi)
    /\ last.f = 0
    /\ last.row_index = 2
    /\ DOMAIN last.data_dict = {"Status"}
    /\ PreGrid = <<H, <<"a", "b">>, <<"b", "a">>>>
    /\ Len(CallsOf(last.calls, "cell")) = 1
    /\ CallsOf(last.calls, "cell")[1].row = 3
    /\ CallsOf(last.calls, "update_row")[1].row = 3


\* C23: generate returns a none result only in the failure cases: whenever its
\* message is "Product generated successfully" the result is a non-none
\* structured product, one the presentation layer's test of the result
\* (app.py 122) takes for a success.
C23_SuccessHasProduct ==
    (last.op = "generate_product" /\ last.msg = "Product generated successfully")
    => /\ last.ret # None
       /\ DOMAIN last.ret[1] # {}


(***************************************************************************)
(* The bulk status update.                                                 *)
(***************************************************************************)
\* s1 \o s2 \o ... of a sequence of sequences
RECURSIVE Flat(_)
Flat(ss) == IF ss = << >> THEN << >> ELSE Head(ss) \o Flat(Tail(ss))

\* the cached Status of the record at offset o in the table df
StatusAt(df, o) == df.rows[o + 1][IndexOf(df.columns, "Status")]

\* C24: a bulk status update over n selected products issues n update_record
\* calls one after another, continues after a failed call, patches the cached
\* Status only of the records whose remote update succeeded, and reports a
\* count equal to the number of successful calls.
C24_BulkStatusSequential ==
    (last.op = "BulkStatusUpdate" /\ last.sp # None)
    => LET n == Len(last.names)
           before == last.pre_session[2][1]
           after == current_data[1]
       IN  /\ Len(last.passes) = n
           /\ Len(last.oks) = n
           /\ last.calls = Flat(last.passes)
           /\ \A k \in 1..n :
                 /\ Len(CallsOf(last.passes[k], "row_values")) = 1
                 /\ Len(CallsOf(last.passes[k], "update_row")) = 1
                 /\ Names(before)[last.selected[k] + 1] = last.names[k]
           /\ last.ret = Cardinality({k \in 1..n : last.oks[k]})
           /\ Len(after.rows) = Len(before.rows)
           /\ \A o \in 0..(Len(before.rows) - 1) :
                 StatusAt(after, o) =
                    IF \E k \in 1..n : last.selected[k] = o /\ last.oks[k]
                    THEN last.data_dict["Status"]
                    ELSE StatusAt(before, o)

\* two products selected, the update of the first fails at its write, the
\* second is then updated and patched, the count is one
C24_Witness ==
    /\ last.op = "BulkStatusUpdate"
    /\ last.sp # None
    /\ Len(last.names) = 2
    /\ last.oks = <<FALSE, TRUE>>
    /\ last.ret = 1
    /\ last.data_dict["Status"] # StatusAt(last.pre_session[2][1], last.selected[1])
    /\ last.data_dict["Status"] # StatusAt(last.pre_session[2][1], last.selected[2])
    /\ StatusAt(current_data[1], last.selected[2]) = last.data_dict["Status"]
    /\ StatusAt(current_data[1], last.selected[1]) # last.data_dict["Status"]


(***************************************************************************)
(* Invariants of the session.                                              *)
(***************************************************************************)
\* C25: in every reachable state the credential store holds a credential if
\* and only if it holds a client handle: both are unset initially and after
\* logout, and both are set after a successful authenticate.
C25_CredentialIffClient ==
    /\ (gsheets_creds = None) <=> (gsheets_client = None)
    /\ last.op \in {"init", "Logout"} => gsheets_creds = None /\ gsheets_client = None
    /\ (last.op \in UiAuthOps /\ last.ret = TRUE)
          => gsheets_creds # None /\ gsheets_client # None

\* a rejected authorization after a logout: both stay unset
C25_Witness ==
    /\ last.op = "Authenticate"
    /\ last.payload = "key1"
    /\ last.f = 1
    /\ last.ret = FALSE
    /\ last.pre_creds = None
    /\ gsheets_creds = None
    /\ gsheets_client = None


\* C26: in every reachable session state a cached Table implies a spreadsheet
\* handle, and the cached Table was read from the worksheet the stored
\* (spreadsheet, worksheet_index) pair identifies: Load Data sets the three
\* together on success and changes none of them when the open or the read
\* fails, and no other operation changes the pair.
C26_CacheHasItsWorksheet ==
    /\ current_data # None => spreadsheet # None
    /\ (current_data # None /\ HasWorksheet(remote, spreadsheet, worksheet_index))
          => LET grid == remote[worksheet_index + 1]
             IN  /\ grid # << >>
                 /\ Trimmed(current_data[1].columns) = Trimmed(grid[1])
    /\ (last.op = "LoadData" /\ last.ret = TRUE)
          => /\ spreadsheet # None
             /\ spreadsheet[1].id = spreadsheet_id(last.url)
             /\ worksheet_index = last.wi
             /\ current_data = render_main(ReadBack(remote, last.wi))
    /\ (last.op = "LoadData" /\ last.ret = FALSE) => session = last.pre_session
    /\ last.op \notin {"init", "LoadData"}
          => /\ spreadsheet = last.pre_session[1]
             /\ worksheet_index = last.pre_session[3]
             /\ last.pre_session[2] = None => current_data = None

\* a second Load Data, of another worksheet, fails at its read: the handle,
\* the table and the index of the first load stay
C26_Witness ==
    /\ last.op = "LoadData"
    /\ last.ret = FALSE
    /\ last.pre_session[2] # None
    /\ last.wi # last.pre_session[3]
    /\ Len(last.calls) > 1
    /\ session = last.pre_session
    /\ current_data # None


\* the header row of a worksheet, none for an empty worksheet
HeaderOf(grid) == IF grid = << >> THEN None ELSE Some(grid[1])

\* C27: the header row of the remote worksheet is never changed by the
\* presentation layer: each load, edit, add, description update and bulk
\* operation leaves row 1 of every worksheet as it was before it, so after any
\* sequence of them row 1 equals its initial value.
C27_HeaderNeverChanged ==
    /\ last.op # "init" =>
          /\ Len(remote) = Len(last.pre_remote)
          /\ \A w \in 1..Len(remote) :
                HeaderOf(remote[w]) = HeaderOf(last.pre_remote[w])
    /\ \E initial \in InitRemotes :
          /\ Len(remote) = Len(initial)
          /\ \A w \in 1..Len(remote) : HeaderOf(remote[w]) = HeaderOf(initial[w])

\* the improved description of the first record is written: row 2 changes,
\* row 1 does not
C27_Witness ==
    /\ last.op = "UpdateInGoogleSheets"
    /\ last.row_index = 0
    /\ last.ret = TRUE
    /\ ChangedRows(last.pre_remote, remote, last.wi + 1) = {2}


(***************************************************************************)
(* The description improver.                                               *)
(***************************************************************************)
\* C28: an improved description is written only to the record it was
\* generated for: whenever Update in Google Sheets replaces a remote row, the
\* row is that of the record selected when the improvement was requested, in
\* the worksheet loaded then, whatever Load Data and whatever selection among
\* records of equal Name came in between.
C28_WrittenToImprovedRecord ==
    (last.op = "UpdateInGoogleSheets" /\ remote # last.pre_remote)
    => /\ last.improved_for # None
       /\ last.sp = last.improved_for[1].sp
       /\ \A w \in 1..Len(remote) :
             ChangedRows(last.pre_remote, remote, w) \subseteq
                IF w = last.improved_for[1].wi + 1
                THEN {last.improved_for[1].offset + 2}
                ELSE {}


(***************************************************************************)
(* The edit form.                                                          *)
(***************************************************************************)
\* the record the edit form submits when no input is touched: every widget
\* holds the value it was filled with from record i of the cached table df
Prefilled(df, i) ==
    [col \in Columns(df) |->
        IF col = "record_id" THEN At(df, i, col)
        ELSE IF col = "Status"
        THEN (IF At(df, i, col) = "Published" THEN "Published" ELSE "Draft")
        ELSE IF col \in PriceColumns THEN price_value(At(df, i, col))
        ELSE At(df, i, col)]

\* C29: saving the edit form without changing any input is a no-op on the
\* data: for every record, Save Changes with the pre-filled values leaves
\* every field of the remote record and of the cached record as it was.
C29_UnchangedSaveIsNoOp ==
    (/\ last.op = "SaveChanges"
     /\ last.pre_session[2] # None
     /\ last.data_dict = Prefilled(last.pre_session[2][1], last.row_index))
    => /\ remote = last.pre_remote
       /\ current_data = last.pre_session[2]


(***************************************************************************)
(* Failed writes.                                                          *)
(***************************************************************************)
WriteApis == {"update_row", "append_row", "delete_row"}
FormOps == {"SaveChanges", "AddProduct"}

\* the last operation failed before it issued its write call
FailedBeforeWrite ==
    /\ last.op \in WriteOps \cup FormOps
    /\ last.ret = FALSE
    /\ \A k \in 1..Len(last.calls) : last.calls[k].api \notin WriteApis

SavedBefore == last.pre_remote[last.wi + 1]
SavedAfter == remote[last.wi + 1]

\* another actor has put in or taken out a row above remote row r of the
\* worksheet since the cached table was read
MovedAbove(r) ==
    /\ Len(SavedBefore) # Len(last.pre_session[2][1].rows) + 1
    /\ r <= Len(SavedBefore)
    /\ SavedBefore[r][1] # At(last.pre_session[2][1], last.row_index, "Name")

\* the worksheet rows whose cells differ in the stores a and b; a row past the
\* last one with a value is a row of empty cells
ChangedCells(a, b, w) ==
    {n \in 1..Max(Len(a[w]), Len(b[w])) :
        Trimmed(RowValues(a[w], n)) # Trimmed(RowValues(b[w], n))}

\* C21: no conflict detection: when another actor inserts or deletes a remote
\* row before offset i between this session's read and its update of the
\* cached record at offset i, the update is not rejected; it is applied to
\* whatever record then occupies remote row i + 2 and reports success.
C21_NoConflictDetection ==
    (last.op = "SaveChanges" /\ last.f = 0)
    => /\ last.ret = TRUE
       /\ last.msg = "Row updated successfully"
       /\ ChangedCells(last.pre_remote, remote, last.wi + 1) \subseteq {last.row_index + 2}
       /\ last.row_index + 2 <= Len(SavedAfter)
       /\ \A c \in 1..Len(SavedBefore[1]) :
             SavedBefore[1][c] \in DOMAIN last.data_dict
             => /\ c <= Len(SavedAfter[last.row_index + 2])
                /\ SavedAfter[last.row_index + 2][c] =
                      CellText(last.data_dict[SavedBefore[1][c]])
       /\ current_data # None
       /\ RowDict(current_data[1], last.row_index) = last.data_dict

\* the record at remote row i + 2 is no longer the one the cache shows at
\* offset i, and Save Changes replaces it and reports success
C21_Witness ==
    /\ last.op = "SaveChanges"
    /\ last.f = 0
    /\ last.ret = TRUE
    /\ MovedAbove(last.row_index + 2)
    /\ SavedAfter[last.row_index + 2] # SavedBefore[last.row_index + 2]

====
